---- MODULE Spec2Model ----
(***************************************************************************)
(* Model of the structured-table client core:                              *)
(*   - proto/structured.go : validateName, ValidateTableDesc,              *)
(*     TableDescFromSchema, TableSchemaFromDesc                            *)
(*   - client/table.go     : DB.BindModel, DB.getModel, Batch.GetStruct,   *)
(*     Batch.PutStruct, marshalTableValue, unmarshalTableValue, key        *)
(*     construction                                                        *)
(* Strings are sequences of one-character strings, so that lowercasing and *)
(* the search for "/" are computed and not assumed.                        *)
(***************************************************************************)
EXTENDS Integers, Sequences, FiniteSets, TLC

VARIABLES
    \* proto: the step of the conversion pipeline, its input schema, the
    \* descriptor, the validator's result, the schema converted back
    pstep, schema, desc, verr, schema2,
    \* client: DB.experimentalModels, the key-value store, the batch's pending
    \* calls and result entries, the caller's records passed by handle
    experimentalModels, store, calls, results, heap,
    \* client: whether the experimentalModels map is still nil
    modelsNil,
    \* client: the arguments and the result of the last BindModel, the number of
    \* operations invoked
    bindArgs, bindRet, nops,
    \* client: the number of operations the caller invokes at most
    limit,
    \* history: per row prefix the record of the last Put of all columns, and
    \* what the Gets of the last batch run are expected to have read
    lastFull, getLog,
    \* history: per cell key the sum of the deltas of the Increments run since
    \* the cell was last absent or written otherwise
    incTotal,
    \* concurrent BindModel calls: control state, arguments, results, crash flag
    pc, args, ret, crashed

pvars == <<pstep, schema, desc, verr, schema2>>

cvars == <<experimentalModels, modelsNil, store, calls, results, heap, bindArgs, bindRet,
           nops, limit, lastFull, getLog, incTotal>>

kvars == <<pc, args, ret, crashed>>

vars == <<pstep, schema, desc, verr, schema2,
          experimentalModels, modelsNil, store, calls, results, heap, bindArgs, bindRet, nops,
          limit, lastFull, getLog, incTotal, pc, args, ret, crashed>>

-----------------------------------------------------------------------------
(* Bounds of the proto inputs. *)

\* Longest column list of an input descriptor or schema.
MaxColumns == 2
\* Longest index list of an input descriptor or schema.
MaxIndexes == 2
\* Largest column or index ID of an input descriptor.
MaxID == 1
\* Longest column list of one index.
MaxIndexColumns == 2
\* Number of client operations (BindModel, batch operations, runs) invoked.
MaxOps == 4
\* The same, for a caller that puts, gets and deletes rows of one table.
MaxRowOps == 4
\* The same, for a caller that puts rows and scans the table.
MaxScanOps == 5
\* The same, for a caller that increments counters.
MaxIncOps == 5
\* The same, for a caller whose operations fail during setup.
MaxSetupOps == 4

-----------------------------------------------------------------------------
(* Strings. *)

\* strings.ToLower on one character.
LowerChar(c) ==
    CASE c = "A" -> "a"
      [] c = "B" -> "b"
      [] OTHER -> c

\* strings.ToLower
ToLower(s) == [i \in DOMAIN s |-> LowerChar(s[i])]

\* strings.Index(name, "/") != -1
ContainsSlash(s) == \E i \in DOMAIN s : s[i] = "/"

\* Sequences over S of length lo..hi.
SeqsOf(S, lo, hi) == UNION {[1..n -> S] : n \in lo..hi}

-----------------------------------------------------------------------------
(* Errors: the message format and its arguments. *)

Err(m, n, i, x) == [msg |-> m, name |-> n, id |-> i, next |-> x]

nil == Err("nil", <<>>, 0, 0)

\* No result yet.
unset == Err("unset", <<>>, 0, 0)

\* TableSchema{}
EmptySchema == [Name |-> <<>>, Columns |-> <<>>, Indexes |-> <<>>]

\* TableDescriptor{}
EmptyDesc == [Name |-> <<>>, Columns |-> <<>>, Indexes |-> <<>>,
              NextColumnID |-> 0, NextIndexID |-> 0]

\* The empty map.
EmptyMap == <<>>

\* The proto variables while the client is modelled.
ProtoIdle ==
    /\ pstep = "idle"
    /\ schema = EmptySchema
    /\ desc = EmptyDesc
    /\ verr = unset
    /\ schema2 = EmptySchema

\* A DB after construction (no model bound), an empty store, a new batch.
ClientFresh ==
    /\ experimentalModels = EmptyMap
    /\ modelsNil = TRUE
    /\ store = EmptyMap
    /\ calls = <<>>
    /\ results = <<>>
    /\ heap = <<>>
    /\ bindArgs = <<>>
    /\ bindRet = unset
    /\ nops = 0
    /\ lastFull = EmptyMap
    /\ incTotal = EmptyMap
    /\ getLog = [ran |-> FALSE, gets |-> <<>>, errs |-> <<>>, scans |-> <<>>]

\* The same, with a caller that invokes at most MaxOps operations.
ClientInit == ClientFresh /\ limit = MaxOps

\* The variables of the concurrent BindModel calls while they are not modelled.
ConcIdle ==
    /\ pc = <<>>
    /\ args = <<>>
    /\ ret = <<>>
    /\ crashed = FALSE

\* validateName(name, typ)
validateName(name, typ) ==
    IF Len(name) = 0
    THEN Err("empty name", <<typ>>, 0, 0)
    ELSE IF ContainsSlash(name)
         THEN Err("may not contain /", name, 0, 0)
         ELSE nil

-----------------------------------------------------------------------------
(* proto/structured.go: ValidateTableDesc *)

\* checkColumn with the ID bound tested by > instead of >=.
checkColumn_boundOffByOne(d, column, byName, byID) ==
    LET e == validateName(column.Name, "column") IN
    IF e # nil THEN e
    ELSE IF column.Name \in byName
    THEN Err("duplicate column name", column.Name, 0, 0)
    ELSE IF column.ID \in byID
    THEN Err("column duplicate ID", column.Name, column.ID, 0)
    ELSE IF column.ID > d.NextColumnID
    THEN Err("column invalid ID", column.Name, column.ID, d.NextColumnID)
    ELSE nil

\* checkColumn with the duplicate-ID test ahead of the duplicate-name test.
checkColumn_idBeforeName(d, column, byName, byID) ==
    LET e == validateName(column.Name, "column") IN
    IF e # nil THEN e
    ELSE IF column.ID \in byID
    THEN Err("column duplicate ID", column.Name, column.ID, 0)
    ELSE IF column.Name \in byName
    THEN Err("duplicate column name", column.Name, 0, 0)
    ELSE IF column.ID >= d.NextColumnID
    THEN Err("column invalid ID", column.Name, column.ID, d.NextColumnID)
    ELSE nil

\* The body of the column loop of ValidateTableDesc for one column, given the
\* columnsByName and columnsByID maps built from the columns before it.
checkColumn(d, column, byName, byID) ==
    LET e == validateName(column.Name, "column") IN
    IF e # nil THEN e
    ELSE IF column.Name \in byName
    THEN Err("duplicate column name", column.Name, 0, 0)
    ELSE IF column.ID \in byID
    THEN Err("column duplicate ID", column.Name, column.ID, 0)
    ELSE IF column.ID >= d.NextColumnID
    THEN Err("column invalid ID", column.Name, column.ID, d.NextColumnID)
    ELSE nil

\* for _, column := range desc.Columns
RECURSIVE validateColumns(_, _, _, _)
validateColumns(d, i, byName, byID) ==
    IF i > Len(d.Columns) THEN nil
    ELSE LET column == d.Columns[i]
             e == checkColumn(d, column, byName, byID)
         IN  IF e # nil THEN e
             ELSE validateColumns(d, i + 1, byName \cup {column.Name},
                                  byID \cup {column.ID})

\* for _, columnID := range index.ColumnIDs
RECURSIVE checkIndexColumns(_, _, _)
checkIndexColumns(index, k, columnsByID) ==
    IF k > Len(index.ColumnIDs) THEN nil
    ELSE IF index.ColumnIDs[k] \notin columnsByID
    THEN Err("index contains unknown column ID", index.Name, index.ColumnIDs[k], 0)
    ELSE checkIndexColumns(index, k + 1, columnsByID)

\* The body of the index loop of ValidateTableDesc for one index.
checkIndex(d, index, byName, byID, columnsByID) ==
    LET e == validateName(index.Name, "index") IN
    IF e # nil THEN e
    ELSE IF index.Name \in byName
    THEN Err("duplicate index name", index.Name, 0, 0)
    ELSE IF index.ID \in byID
    THEN Err("index duplicate ID", index.Name, index.ID, 0)
    ELSE IF index.ID >= d.NextIndexID
    THEN Err("index invalid index ID", index.Name, index.ID, d.NextIndexID)
    ELSE IF Len(index.ColumnIDs) = 0
    THEN Err("index must contain at least 1 column", index.Name, 0, 0)
    ELSE checkIndexColumns(index, 1, columnsByID)

\* for _, index := range desc.Indexes
RECURSIVE validateIndexes(_, _, _, _, _)
validateIndexes(d, i, byName, byID, columnsByID) ==
    IF i > Len(d.Indexes) THEN nil
    ELSE LET index == d.Indexes[i]
             e == checkIndex(d, index, byName, byID, columnsByID)
         IN  IF e # nil THEN e
             ELSE validateIndexes(d, i + 1, byName \cup {index.Name},
                                  byID \cup {index.ID}, columnsByID)

\* The columnsByID map once the column loop has run to its end.
columnsByIDOf(d) == {d.Columns[i].ID : i \in DOMAIN d.Columns}

\* ValidateTableDesc with the index count tested ahead of the column loop.
ValidateTableDesc_indexCountFirst(d) ==
    LET e1 == validateName(d.Name, "table") IN
    IF e1 # nil THEN e1
    ELSE IF Len(d.Columns) = 0
    THEN Err("table must contain at least 1 column", <<>>, 0, 0)
    ELSE IF Len(d.Indexes) = 0
    THEN Err("table must contain at least 1 index", <<>>, 0, 0)
    ELSE LET e2 == validateColumns(d, 1, {}, {}) IN
         IF e2 # nil THEN e2
         ELSE validateIndexes(d, 1, {}, {}, columnsByIDOf(d))

\* ValidateTableDesc(desc)
ValidateTableDesc(d) ==
    LET e1 == validateName(d.Name, "table") IN
    IF e1 # nil THEN e1
    ELSE IF Len(d.Columns) = 0
    THEN Err("table must contain at least 1 column", <<>>, 0, 0)
    ELSE LET e2 == validateColumns(d, 1, {}, {}) IN
         IF e2 # nil THEN e2
         ELSE IF Len(d.Indexes) = 0
         THEN Err("table must contain at least 1 index", <<>>, 0, 0)
         ELSE validateIndexes(d, 1, {}, {}, columnsByIDOf(d))

-----------------------------------------------------------------------------
(* proto/structured.go: TableDescFromSchema, TableSchemaFromDesc *)

\* A Go map built by assigning keys[i] -> vals[i] for i = 1..n in order (a later
\* assignment overwrites an earlier one), read at key k; a missing key reads as
\* the zero value.
MapGet(keys, vals, k, zero) ==
    LET hits == {i \in DOMAIN keys : keys[i] = k} IN
    IF hits = {} THEN zero
    ELSE vals[CHOOSE i \in hits : \A j \in hits : j <= i]

\* TableDescFromSchema with the counters incremented before the ID is taken
\* (IDs 1,2,.. instead of 0,1,..).
TableDescFromSchema_idAfterIncrement(s) ==
    LET n == Len(s.Columns)
        Columns == [i \in 1..n |->
                      [ID |-> i, Name |-> ToLower(s.Columns[i].Name),
                       Type |-> s.Columns[i].Type]]
        colNames == [i \in 1..n |-> Columns[i].Name]
        colIDs == [i \in 1..n |-> Columns[i].ID]
        Indexes == [i \in 1..Len(s.Indexes) |->
                      [ID |-> i, Name |-> ToLower(s.Indexes[i].Name),
                       Unique |-> s.Indexes[i].Unique,
                       ColumnIDs |->
                          [k \in 1..Len(s.Indexes[i].ColumnNames) |->
                             MapGet(colNames, colIDs, s.Indexes[i].ColumnNames[k], 0)]]]
    IN  [Name |-> ToLower(s.Name), Columns |-> Columns, Indexes |-> Indexes,
         NextColumnID |-> n, NextIndexID |-> Len(s.Indexes)]

\* TableDescFromSchema(schema)
TableDescFromSchema(s) ==
    LET n == Len(s.Columns)
        \* desc.NextColumnID starts at 0 and is incremented once per column
        Columns == [i \in 1..n |->
                      [ID |-> i - 1, Name |-> ToLower(s.Columns[i].Name),
                       Type |-> s.Columns[i].Type]]
        colNames == [i \in 1..n |-> Columns[i].Name]
        colIDs == [i \in 1..n |-> Columns[i].ID]
        Indexes == [i \in 1..Len(s.Indexes) |->
                      [ID |-> i - 1, Name |-> ToLower(s.Indexes[i].Name),
                       Unique |-> s.Indexes[i].Unique,
                       ColumnIDs |->
                          [k \in 1..Len(s.Indexes[i].ColumnNames) |->
                             MapGet(colNames, colIDs, s.Indexes[i].ColumnNames[k], 0)]]]
    IN  [Name |-> ToLower(s.Name), Columns |-> Columns, Indexes |-> Indexes,
         NextColumnID |-> n, NextIndexID |-> Len(s.Indexes)]

\* TableSchemaFromDesc with columnsByID keyed by the column's position in the
\* list (1,2,..) instead of its ID.
TableSchemaFromDesc_byPosition(d) ==
    LET ids == [i \in 1..Len(d.Columns) |-> i]
        names == [i \in 1..Len(d.Columns) |-> d.Columns[i].Name]
    IN  [Name |-> d.Name,
         Columns |-> [i \in 1..Len(d.Columns) |->
                        [Name |-> d.Columns[i].Name, Type |-> d.Columns[i].Type]],
         Indexes |-> [i \in 1..Len(d.Indexes) |->
                        [Name |-> d.Indexes[i].Name, Unique |-> d.Indexes[i].Unique,
                         ColumnNames |->
                            [k \in 1..Len(d.Indexes[i].ColumnIDs) |->
                               MapGet(ids, names, d.Indexes[i].ColumnIDs[k], <<>>)]]]]

\* TableSchemaFromDesc(desc)
TableSchemaFromDesc(d) ==
    LET ids == [i \in 1..Len(d.Columns) |-> d.Columns[i].ID]
        names == [i \in 1..Len(d.Columns) |-> d.Columns[i].Name]
    IN  [Name |-> d.Name,
         Columns |-> [i \in 1..Len(d.Columns) |->
                        [Name |-> d.Columns[i].Name, Type |-> d.Columns[i].Type]],
         Indexes |-> [i \in 1..Len(d.Indexes) |->
                        [Name |-> d.Indexes[i].Name, Unique |-> d.Indexes[i].Unique,
                         ColumnNames |->
                            [k \in 1..Len(d.Indexes[i].ColumnIDs) |->
                               MapGet(ids, names, d.Indexes[i].ColumnIDs[k], <<>>)]]]]

-----------------------------------------------------------------------------
(* Inputs of the proto operations. *)

\* Names of input descriptors: empty, valid, valid, containing "/".
DescNames == {<<>>, <<"a">>, <<"b">>, <<"a", "/">>}

\* Names of input schemas: empty, lowercase, uppercase, containing "/".
SchemaNames == {<<>>, <<"a">>, <<"b">>, <<"A">>, <<"/">>}

IDs == 0..MaxID

NextIDs == 0..(MaxID + 1)

ColumnDescs == [ID : IDs, Name : DescNames, Type : {"BYTES"}]

\* Descriptors with every column list, and few index lists.
ColumnFocusDescs ==
    [Name : DescNames,
     Columns : SeqsOf(ColumnDescs, 0, MaxColumns),
     Indexes : {<<>>,
                <<[ID |-> 0, Name |-> <<"a">>, Unique |-> FALSE, ColumnIDs |-> <<0>>]>>,
                <<[ID |-> 0, Name |-> <<>>, Unique |-> FALSE, ColumnIDs |-> <<MaxID>>]>>},
     NextColumnID : NextIDs,
     NextIndexID : {0, 1}]

\* The column lists of the descriptors that vary the indexes.
FewColumnLists ==
    {<<[ID |-> 0, Name |-> <<"a">>, Type |-> "BYTES"]>>,
     <<[ID |-> 1, Name |-> <<"a">>, Type |-> "BYTES"],
       [ID |-> 0, Name |-> <<"b">>, Type |-> "BYTES"]>>}

\* Descriptors with every index list (IDs and names), each index over one of
\* few column-ID lists.
IndexFocusDescs ==
    [Name : {<<"a">>},
     Columns : FewColumnLists,
     Indexes : SeqsOf([ID : IDs, Name : DescNames, Unique : {FALSE},
                       ColumnIDs : {<<>>, <<0>>, <<MaxID>>}], 0, MaxIndexes),
     NextColumnID : {MaxID + 1},
     NextIndexID : NextIDs]

\* Descriptors whose last index has every column-ID list.
IndexColumnFocusDescs ==
    [Name : {<<"a">>},
     Columns : FewColumnLists,
     Indexes : {<<x>> : x \in [ID : {0}, Name : {<<"a">>}, Unique : {FALSE},
                               ColumnIDs : SeqsOf(IDs, 0, MaxIndexColumns)]}
               \cup
               {<<[ID |-> 0, Name |-> <<"a">>, Unique |-> FALSE, ColumnIDs |-> <<0>>], x>> :
                    x \in [ID : {1}, Name : {<<"b">>}, Unique : {TRUE},
                           ColumnIDs : SeqsOf(IDs, 0, MaxIndexColumns)]},
     NextColumnID : {MaxID + 1},
     NextIndexID : {MaxID + 1}]

DescInputs == ColumnFocusDescs \cup IndexFocusDescs \cup IndexColumnFocusDescs

\* Column names an input index refers to: a column, the same name in upper
\* case, another column.
RefNames == {<<"a">>, <<"A">>, <<"b">>}

\* Schemas with every column list, and few index lists.
ColumnFocusSchemas ==
    [Name : SchemaNames,
     Columns : SeqsOf([Name : SchemaNames, Type : {"BYTES", "INT"}], 0, MaxColumns),
     Indexes : {<<>>,
                <<[Name |-> <<"a">>, Unique |-> TRUE, ColumnNames |-> <<<<"a">>>>]>>,
                <<[Name |-> <<"/">>, Unique |-> FALSE, ColumnNames |-> <<<<"a">>>>]>>}]

\* The column lists of the schemas that vary the indexes.
FewSchemaColumnLists ==
    {<<[Name |-> <<"a">>, Type |-> "BYTES"]>>,
     <<[Name |-> <<"b">>, Type |-> "INT"], [Name |-> <<"a">>, Type |-> "BYTES"]>>,
     <<[Name |-> <<"A">>, Type |-> "BYTES"]>>}

\* Schemas with every index list (names), each index over one of few
\* column-name lists.
IndexFocusSchemas ==
    [Name : {<<"a">>},
     Columns : FewSchemaColumnLists,
     Indexes : SeqsOf([Name : {<<>>, <<"a">>, <<"A">>, <<"b">>}, Unique : {FALSE},
                       ColumnNames : {<<>>, <<<<"a">>>>, <<<<"b">>>>}],
                      0, MaxIndexes)]

\* Schemas whose last index has every column-name list.
IndexColumnFocusSchemas ==
    [Name : {<<"a">>},
     Columns : FewSchemaColumnLists,
     Indexes : {<<x>> : x \in [Name : {<<"a">>}, Unique : {FALSE},
                               ColumnNames : SeqsOf(RefNames, 0, MaxIndexColumns)]}
               \cup
               {<<[Name |-> <<"a">>, Unique |-> FALSE, ColumnNames |-> <<<<"a">>>>], x>> :
                    x \in [Name : {<<"b">>}, Unique : {TRUE},
                           ColumnNames : SeqsOf(RefNames, 0, MaxIndexColumns)]}]

SchemaInputs == ColumnFocusSchemas \cup IndexFocusSchemas \cup IndexColumnFocusSchemas

-----------------------------------------------------------------------------
(* The proto state machine: an input descriptor is validated; an input     *)
(* schema is converted to a descriptor, which is converted back and        *)
(* validated.                                                              *)

PInit ==
    /\ ClientInit
    /\ ConcIdle
    /\ schema2 = EmptySchema
    /\ verr = unset
    /\ \/ /\ pstep = "desc"
          /\ schema = EmptySchema
          /\ desc \in DescInputs
       \/ /\ pstep = "schema"
          /\ schema \in SchemaInputs
          /\ desc = EmptyDesc

\* desc := TableDescFromSchema(schema)
FromSchema ==
    /\ pstep = "schema"
    /\ desc' = TableDescFromSchema(schema)
    /\ pstep' = "fromSchema"
    /\ UNCHANGED <<schema, verr, schema2, cvars, kvars>>

\* schema2 := TableSchemaFromDesc(desc)
FromDesc ==
    /\ pstep = "fromSchema"
    /\ schema2' = TableSchemaFromDesc(desc)
    /\ pstep' = "roundTrip"
    /\ UNCHANGED <<schema, desc, verr, cvars, kvars>>

\* err := ValidateTableDesc(desc)
Validate ==
    /\ pstep \in {"desc", "roundTrip"}
    /\ verr = unset
    /\ verr' = ValidateTableDesc(desc)
    /\ UNCHANGED <<pstep, schema, desc, schema2, cvars, kvars>>

PNext == FromSchema \/ FromDesc \/ Validate

SpecDesc == PInit /\ [][PNext]_vars

-----------------------------------------------------------------------------
(* Properties of ValidateTableDesc. *)

NameOK(n) == Len(n) > 0 /\ \A i \in DOMAIN n : n[i] # "/"

Validated == verr # unset

\* The structural invariants of a descriptor, stated without an order.
WellFormedDesc(d) ==
    /\ NameOK(d.Name)
    /\ \A i \in DOMAIN d.Columns : NameOK(d.Columns[i].Name)
    /\ \A i \in DOMAIN d.Indexes : NameOK(d.Indexes[i].Name)
    /\ Len(d.Columns) >= 1
    /\ Len(d.Indexes) >= 1
    /\ \A i, j \in DOMAIN d.Columns :
          i # j => /\ d.Columns[i].Name # d.Columns[j].Name
                   /\ d.Columns[i].ID # d.Columns[j].ID
    /\ \A i \in DOMAIN d.Columns : d.Columns[i].ID < d.NextColumnID
    /\ \A i, j \in DOMAIN d.Indexes :
          i # j => /\ d.Indexes[i].Name # d.Indexes[j].Name
                   /\ d.Indexes[i].ID # d.Indexes[j].ID
    /\ \A i \in DOMAIN d.Indexes : d.Indexes[i].ID < d.NextIndexID
    /\ \A i \in DOMAIN d.Indexes :
          /\ Len(d.Indexes[i].ColumnIDs) >= 1
          /\ \A k \in DOMAIN d.Indexes[i].ColumnIDs :
                \E c \in DOMAIN d.Columns : d.Columns[c].ID = d.Indexes[i].ColumnIDs[k]

\* C1: ValidateTableDesc returns success if and only if the descriptor
\* satisfies all the structural invariants (valid names, at least one column
\* and one index, distinct names and IDs, IDs below the next-ID counters,
\* every index lists at least one column ID and only IDs of columns).
C1_ValidateIffWellFormed ==
    Validated => (verr = nil <=> WellFormedDesc(desc))

\* C1 witness: an input descriptor with two columns and two indexes has been
\* validated and accepted.
C1_Witness ==
    /\ pstep = "desc"
    /\ verr = nil
    /\ Len(desc.Columns) = 2
    /\ Len(desc.Indexes) = 2

-----------------------------------------------------------------------------
(* Order of the checks of ValidateTableDesc. *)

\* Column i fails one of the four column checks, given the columns before it.
ColumnFails(d, i) ==
    \/ ~NameOK(d.Columns[i].Name)
    \/ \E j \in 1..(i - 1) : d.Columns[j].Name = d.Columns[i].Name
    \/ \E j \in 1..(i - 1) : d.Columns[j].ID = d.Columns[i].ID
    \/ d.Columns[i].ID >= d.NextColumnID

\* Index i fails one of the six index checks, given the indexes before it.
IndexFails(d, i) ==
    \/ ~NameOK(d.Indexes[i].Name)
    \/ \E j \in 1..(i - 1) : d.Indexes[j].Name = d.Indexes[i].Name
    \/ \E j \in 1..(i - 1) : d.Indexes[j].ID = d.Indexes[i].ID
    \/ d.Indexes[i].ID >= d.NextIndexID
    \/ Len(d.Indexes[i].ColumnIDs) = 0
    \/ \E k \in DOMAIN d.Indexes[i].ColumnIDs :
          \A c \in DOMAIN d.Columns : d.Columns[c].ID # d.Indexes[i].ColumnIDs[k]

ColumnMsgs == {"duplicate column name", "column duplicate ID", "column invalid ID"}

IndexMsgs == {"duplicate index name", "index duplicate ID", "index invalid index ID",
              "index must contain at least 1 column", "index contains unknown column ID"}

NameMsgs == {"empty name", "may not contain /"}

\* The invariant whose message the validator returns when the invariants are
\* taken in the order of the data model's list: table name; at least one
\* column and at least one index; column names unique, column IDs unique,
\* column ID below NextColumnID; index names unique, index IDs unique, index ID
\* below NextIndexID; index has a column, index column IDs exist.
ListOrderFirst(d) ==
    IF ~NameOK(d.Name) THEN "table name"
    ELSE IF Len(d.Columns) = 0 THEN "table must contain at least 1 column"
    ELSE IF Len(d.Indexes) = 0 THEN "table must contain at least 1 index"
    ELSE IF \E i, j \in DOMAIN d.Columns : i # j /\ d.Columns[i].Name = d.Columns[j].Name
    THEN "duplicate column name"
    ELSE IF \E i, j \in DOMAIN d.Columns : i # j /\ d.Columns[i].ID = d.Columns[j].ID
    THEN "column duplicate ID"
    ELSE IF \E i \in DOMAIN d.Columns : d.Columns[i].ID >= d.NextColumnID
    THEN "column invalid ID"
    ELSE IF \E i, j \in DOMAIN d.Indexes : i # j /\ d.Indexes[i].Name = d.Indexes[j].Name
    THEN "duplicate index name"
    ELSE IF \E i, j \in DOMAIN d.Indexes : i # j /\ d.Indexes[i].ID = d.Indexes[j].ID
    THEN "index duplicate ID"
    ELSE IF \E i \in DOMAIN d.Indexes : d.Indexes[i].ID >= d.NextIndexID
    THEN "index invalid index ID"
    ELSE IF \E i \in DOMAIN d.Indexes : Len(d.Indexes[i].ColumnIDs) = 0
    THEN "index must contain at least 1 column"
    ELSE "index contains unknown column ID"

ItemNamesOK(d) ==
    /\ \A i \in DOMAIN d.Columns : NameOK(d.Columns[i].Name)
    /\ \A i \in DOMAIN d.Indexes : NameOK(d.Indexes[i].Name)

\* C2 as claimed: a rejected descriptor (all of whose column and index names
\* are valid) gets the message of the violated invariant that comes first in
\* the order of the data model's list.
C2_ListOrder ==
    (Validated /\ verr # nil /\ NameOK(desc.Name) /\ ItemNamesOK(desc))
        => verr.msg = ListOrderFirst(desc)

\* C2 amended: the message is the one of the first failing step in the order
\* table name; at least one column; the checks of the columns; at least one
\* index; the checks of the indexes.
C2_StepOrder ==
    Validated =>
        IF ~NameOK(desc.Name)
        THEN verr.msg \in NameMsgs /\ verr.name \in {<<"table">>, desc.Name}
        ELSE IF Len(desc.Columns) = 0
        THEN verr.msg = "table must contain at least 1 column"
        ELSE IF \E i \in DOMAIN desc.Columns : ColumnFails(desc, i)
        THEN /\ verr.msg \in ColumnMsgs \cup NameMsgs
             /\ verr.name \in {<<"column">>} \cup {desc.Columns[i].Name : i \in DOMAIN desc.Columns}
        ELSE IF Len(desc.Indexes) = 0
        THEN verr.msg = "table must contain at least 1 index"
        ELSE IF \E i \in DOMAIN desc.Indexes : IndexFails(desc, i)
        THEN /\ verr.msg \in IndexMsgs \cup NameMsgs
             /\ verr.name \in {<<"index">>} \cup {desc.Indexes[i].Name : i \in DOMAIN desc.Indexes}
        ELSE verr = nil

\* C2 witness: a validated descriptor that has a failing column and no index
\* (two violations at once, in two different steps).
C2_Witness ==
    /\ Validated
    /\ NameOK(desc.Name)
    /\ Len(desc.Indexes) = 0
    /\ \E i \in DOMAIN desc.Columns : ColumnFails(desc, i)
    /\ verr.msg \in ColumnMsgs

\* The message for column i when the four column checks are taken in the
\* order name, duplicate name, duplicate ID, ID bound.
ColumnExpected(d, i) ==
    LET c == d.Columns[i] IN
    IF Len(c.Name) = 0 THEN Err("empty name", <<"column">>, 0, 0)
    ELSE IF ~NameOK(c.Name) THEN Err("may not contain /", c.Name, 0, 0)
    ELSE IF \E j \in 1..(i - 1) : d.Columns[j].Name = c.Name
    THEN Err("duplicate column name", c.Name, 0, 0)
    ELSE IF \E j \in 1..(i - 1) : d.Columns[j].ID = c.ID
    THEN Err("column duplicate ID", c.Name, c.ID, 0)
    ELSE Err("column invalid ID", c.Name, c.ID, d.NextColumnID)

\* The message for index i when the six index checks are taken in the order
\* name, duplicate name, duplicate ID, ID bound, empty column list, unknown
\* column ID (the first unknown one of the list).
IndexExpected(d, i) ==
    LET x == d.Indexes[i]
        unknown == {k \in DOMAIN x.ColumnIDs :
                      \A c \in DOMAIN d.Columns : d.Columns[c].ID # x.ColumnIDs[k]}
    IN
    IF Len(x.Name) = 0 THEN Err("empty name", <<"index">>, 0, 0)
    ELSE IF ~NameOK(x.Name) THEN Err("may not contain /", x.Name, 0, 0)
    ELSE IF \E j \in 1..(i - 1) : d.Indexes[j].Name = x.Name
    THEN Err("duplicate index name", x.Name, 0, 0)
    ELSE IF \E j \in 1..(i - 1) : d.Indexes[j].ID = x.ID
    THEN Err("index duplicate ID", x.Name, x.ID, 0)
    ELSE IF x.ID >= d.NextIndexID
    THEN Err("index invalid index ID", x.Name, x.ID, d.NextIndexID)
    ELSE IF Len(x.ColumnIDs) = 0
    THEN Err("index must contain at least 1 column", x.Name, 0, 0)
    ELSE Err("index contains unknown column ID", x.Name,
             x.ColumnIDs[CHOOSE k \in unknown : \A l \in unknown : k <= l], 0)

\* C3: columns are checked in list order and, for each column, the checks run
\* in the order name, duplicate name, duplicate ID, ID bound; likewise each
\* index (name, duplicate name, duplicate ID, ID bound, empty column list,
\* unknown column ID). So the message is the one of the first failing check
\* of the first failing column (or index).
C3_ItemOrder ==
    (Validated /\ NameOK(desc.Name) /\ Len(desc.Columns) > 0) =>
        LET badC == {i \in DOMAIN desc.Columns : ColumnFails(desc, i)}
            badI == {i \in DOMAIN desc.Indexes : IndexFails(desc, i)}
        IN  IF badC # {}
            THEN verr = ColumnExpected(desc, CHOOSE i \in badC : \A j \in badC : i <= j)
            ELSE (Len(desc.Indexes) > 0 /\ badI # {}) =>
                    verr = IndexExpected(desc, CHOOSE i \in badI : \A j \in badI : i <= j)

\* C3 witness: the second column repeats both the name and the ID of the
\* first and the duplicate-name message is returned.
C3_Witness ==
    /\ Validated
    /\ Len(desc.Columns) = 2
    /\ NameOK(desc.Columns[1].Name)
    /\ desc.Columns[2].Name = desc.Columns[1].Name
    /\ desc.Columns[2].ID = desc.Columns[1].ID
    /\ desc.Columns[1].ID < desc.NextColumnID
    /\ verr.msg = "duplicate column name"

-----------------------------------------------------------------------------
(* Properties of TableDescFromSchema and TableSchemaFromDesc. *)

IsLower(n) == \A i \in DOMAIN n : n[i] \notin {"A", "B"}

NoSlash(n) == \A i \in DOMAIN n : n[i] # "/"

SchemaColumnNames(s) == {s.Columns[i].Name : i \in DOMAIN s.Columns}

\* Every name is lowercase and "/"-free, and every column an index names is a
\* column of the schema.
Conforming(s) ==
    /\ IsLower(s.Name) /\ NoSlash(s.Name)
    /\ \A i \in DOMAIN s.Columns : IsLower(s.Columns[i].Name) /\ NoSlash(s.Columns[i].Name)
    /\ \A i \in DOMAIN s.Indexes :
          /\ IsLower(s.Indexes[i].Name) /\ NoSlash(s.Indexes[i].Name)
          /\ \A k \in DOMAIN s.Indexes[i].ColumnNames :
                s.Indexes[i].ColumnNames[k] \in SchemaColumnNames(s)

\* C4: for a schema whose names are lowercase and "/"-free and whose index
\* column names all name a column of the schema, converting to a descriptor
\* and back gives the schema again.
C4_RoundTrip ==
    (pstep = "roundTrip" /\ Conforming(schema)) => schema2 = schema

\* C4 witness: a conforming schema with two columns and an index over two
\* columns has been converted there and back.
C4_Witness ==
    /\ pstep = "roundTrip"
    /\ Conforming(schema)
    /\ Len(schema.Columns) = 2
    /\ \E i \in DOMAIN schema.Indexes :
          /\ Len(schema.Indexes[i].ColumnNames) = 2
          /\ schema.Indexes[i].ColumnNames[1] # schema.Indexes[i].ColumnNames[2]

Distinct(f) == \A i, j \in DOMAIN f : i # j => f[i] # f[j]

\* The shape every well-formed schema has: valid names, at least one column
\* and one index, every index names at least one column and only columns of
\* the schema.
WellFormedShape(s) ==
    /\ NameOK(s.Name)
    /\ \A i \in DOMAIN s.Columns : NameOK(s.Columns[i].Name)
    /\ \A i \in DOMAIN s.Indexes : NameOK(s.Indexes[i].Name)
    /\ Len(s.Columns) >= 1
    /\ Len(s.Indexes) >= 1
    /\ \A i \in DOMAIN s.Indexes :
          /\ Len(s.Indexes[i].ColumnNames) >= 1
          /\ \A k \in DOMAIN s.Indexes[i].ColumnNames :
                s.Indexes[i].ColumnNames[k] \in SchemaColumnNames(s)

\* Well-formed, names compared as written.
WellFormedSchema(s) ==
    /\ WellFormedShape(s)
    /\ Distinct([i \in DOMAIN s.Columns |-> s.Columns[i].Name])
    /\ Distinct([i \in DOMAIN s.Indexes |-> s.Indexes[i].Name])

\* Well-formed, names compared without regard to letter case.
WellFormedSchemaFold(s) ==
    /\ WellFormedShape(s)
    /\ Distinct([i \in DOMAIN s.Columns |-> ToLower(s.Columns[i].Name)])
    /\ Distinct([i \in DOMAIN s.Indexes |-> ToLower(s.Indexes[i].Name)])

FromSchemaValidated == pstep = "roundTrip" /\ Validated

\* IDs are 0,1,2,.. in list order and the counters are the list lengths.
DenseIDs(d) ==
    /\ \A i \in DOMAIN d.Columns : d.Columns[i].ID = i - 1
    /\ \A i \in DOMAIN d.Indexes : d.Indexes[i].ID = i - 1
    /\ d.NextColumnID = Len(d.Columns)
    /\ d.NextIndexID = Len(d.Indexes)

\* C5 as claimed: the descriptor of every well-formed schema (names distinct
\* as written) passes ValidateTableDesc, with IDs 0,1,2,.. and the counters
\* equal to the numbers of columns and indexes.
C5_WellFormedValidates ==
    (FromSchemaValidated /\ WellFormedSchema(schema)) => (verr = nil /\ DenseIDs(desc))

\* C5 amended: the same for every well-formed schema whose column names, and
\* whose index names, are distinct without regard to letter case.
C5_WellFormedFoldValidates ==
    (FromSchemaValidated /\ WellFormedSchemaFold(schema)) => (verr = nil /\ DenseIDs(desc))

\* C5 witness: a well-formed schema with two columns and two indexes has been
\* converted and its descriptor validated.
C5_Witness ==
    /\ FromSchemaValidated
    /\ WellFormedSchemaFold(schema)
    /\ Len(schema.Columns) = 2
    /\ Len(schema.Indexes) = 2

\* C6 as claimed: the descriptor of a schema in which an index names a column
\* that is not among the schema's columns is rejected by ValidateTableDesc.
C6_InvalidSchemaRejected ==
    (FromSchemaValidated /\
     \E i \in DOMAIN schema.Indexes : \E k \in DOMAIN schema.Indexes[i].ColumnNames :
         schema.Indexes[i].ColumnNames[k] \notin SchemaColumnNames(schema))
        => verr # nil

-----------------------------------------------------------------------------
(* client/table.go: record types, values and their marshalling.            *)
(* A byte is a one-character string or one of "00", "01", "ff"; a string   *)
(* is the sequence of its bytes; a []byte is <<>> when nil and <<b>> when  *)
(* it holds the bytes b; an *int64 is <<>> when nil and <<i>> otherwise.   *)

\* Width in bits of the model's int64 and uint64.
WordBits == 4

Modulus == 2 ^ WordBits

MaxInt64 == 2 ^ (WordBits - 1) - 1

MinInt64 == 0 - 2 ^ (WordBits - 1)

MaxUint64 == Modulus - 1

\* int64(u) for a uint64 u
ToInt64(u) == IF u > MaxInt64 THEN u - Modulus ELSE u

\* uint64(i) for an int64 i
ToUint64(i) == i % Modulus

\* math.Float64bits: the sign bit is the top bit of the word.
Float64bits(f) ==
    CASE f = "0.0" -> 0
      [] f = "1.5" -> 3
      [] f = "-0.0" -> MaxInt64 + 1
      [] f = "-1.5" -> MaxInt64 + 1 + 3
      [] OTHER -> MaxInt64

\* math.Float64frombits
Float64frombits(u) ==
    CASE u = 0 -> "0.0"
      [] u = 3 -> "1.5"
      [] u = MaxInt64 + 1 -> "-0.0"
      [] u = MaxInt64 + 1 + 3 -> "-1.5"
      [] OTHER -> "NaN"

CErr(m) == Err(m, <<>>, 0, 0)

\* The record types of the caller.
Types == {"User", "Counter"}

cId == <<"i", "d">>
cName == <<"n", "a", "m", "e">>
cRaw == <<"r", "a", "w">>
cOk == <<"o", "k">>
cKey == <<"k", "e", "y">>
cN == <<"n">>
cU == <<"u">>
cF == <<"f">>
\* A column no record type has.
cNone == <<"z", "z">>

\* getDBFields(t): column name -> kind of the field.
getDBFields(t) ==
    IF t = "User"
    THEN (cId :> "string") @@ (cName :> "string") @@ (cRaw :> "bytes") @@ (cOk :> "bool")
    ELSE (cKey :> "string") @@ (cN :> "int") @@ (cU :> "uint") @@ (cF :> "float")

\* reflect.Zero of a field of the kind
ZeroOf(kind) ==
    CASE kind = "string" -> <<>>
      [] kind = "bytes" -> <<>>
      [] kind = "bool" -> FALSE
      [] kind = "int" -> 0
      [] kind = "uint" -> 0
      [] kind = "float" -> "0.0"

\* proto.Value{}
NoValue == [Integer |-> <<>>, Bytes |-> <<>>]

\* marshalTableValue(v) for a field of the kind
marshalTableValue(kind, v) ==
    CASE kind = "string" -> [err |-> nil, val |-> [Integer |-> <<>>, Bytes |-> <<v>>]]
      [] kind = "bytes" -> [err |-> nil, val |-> [Integer |-> <<>>, Bytes |-> v]]
      [] kind = "bool" ->
            [err |-> nil, val |-> [Integer |-> <<IF v THEN 1 ELSE 0>>, Bytes |-> <<>>]]
      [] kind = "int" -> [err |-> nil, val |-> [Integer |-> <<v>>, Bytes |-> <<>>]]
      [] kind = "uint" -> [err |-> nil, val |-> [Integer |-> <<ToInt64(v)>>, Bytes |-> <<>>]]
      [] kind = "float" ->
            [err |-> nil, val |-> [Integer |-> <<ToInt64(Float64bits(v))>>, Bytes |-> <<>>]]
      [] OTHER -> [err |-> CErr("unable to marshal value"), val |-> NoValue]

\* src.GetInteger(): 0 when the integer payload is absent
GetInteger(src) == IF src.Integer = <<>> THEN 0 ELSE src.Integer[1]

\* unmarshalTableValue storing the signed payload in an unsigned field as is.
unmarshalTableValue_noUintConversion(src, kind, cur) ==
    IF src = <<>> THEN [err |-> nil, val |-> ZeroOf(kind)]
    ELSE LET v == src[1] IN
    CASE kind = "string" ->
            IF v.Integer # <<>>
            THEN [err |-> CErr("unable to unmarshal integer value"), val |-> cur]
            ELSE [err |-> nil, val |-> IF v.Bytes # <<>> THEN v.Bytes[1] ELSE <<>>]
      [] kind = "bytes" ->
            IF v.Integer # <<>>
            THEN [err |-> CErr("unable to unmarshal integer value"), val |-> cur]
            ELSE [err |-> nil, val |-> v.Bytes]
      [] kind = "bool" ->
            IF v.Bytes # <<>>
            THEN [err |-> CErr("unable to unmarshal byts value"), val |-> cur]
            ELSE [err |-> nil, val |-> GetInteger(v) # 0]
      [] kind = "int" ->
            IF v.Bytes # <<>>
            THEN [err |-> CErr("unable to unmarshal byts value"), val |-> cur]
            ELSE [err |-> nil, val |-> GetInteger(v)]
      [] kind = "uint" ->
            IF v.Bytes # <<>>
            THEN [err |-> CErr("unable to unmarshal byts value"), val |-> cur]
            ELSE [err |-> nil, val |-> GetInteger(v)]
      [] kind = "float" ->
            IF v.Bytes # <<>>
            THEN [err |-> CErr("unable to unmarshal byts value"), val |-> cur]
            ELSE [err |-> nil, val |-> Float64frombits(ToUint64(GetInteger(v)))]
      [] OTHER -> [err |-> CErr("unable to unmarshal value"), val |-> cur]

\* unmarshalTableValue leaving the field alone when the reply has no value.
unmarshalTableValue_nilKeeps(src, kind, cur) ==
    IF src = <<>> THEN [err |-> nil, val |-> cur]
    ELSE LET v == src[1] IN
    CASE kind = "string" ->
            IF v.Integer # <<>>
            THEN [err |-> CErr("unable to unmarshal integer value"), val |-> cur]
            ELSE [err |-> nil, val |-> IF v.Bytes # <<>> THEN v.Bytes[1] ELSE <<>>]
      [] kind = "bytes" ->
            IF v.Integer # <<>>
            THEN [err |-> CErr("unable to unmarshal integer value"), val |-> cur]
            ELSE [err |-> nil, val |-> v.Bytes]
      [] kind = "bool" ->
            IF v.Bytes # <<>>
            THEN [err |-> CErr("unable to unmarshal byts value"), val |-> cur]
            ELSE [err |-> nil, val |-> GetInteger(v) # 0]
      [] kind = "int" ->
            IF v.Bytes # <<>>
            THEN [err |-> CErr("unable to unmarshal byts value"), val |-> cur]
            ELSE [err |-> nil, val |-> GetInteger(v)]
      [] kind = "uint" ->
            IF v.Bytes # <<>>
            THEN [err |-> CErr("unable to unmarshal byts value"), val |-> cur]
            ELSE [err |-> nil, val |-> ToUint64(GetInteger(v))]
      [] kind = "float" ->
            IF v.Bytes # <<>>
            THEN [err |-> CErr("unable to unmarshal byts value"), val |-> cur]
            ELSE [err |-> nil, val |-> Float64frombits(ToUint64(GetInteger(v)))]
      [] OTHER -> [err |-> CErr("unable to unmarshal value"), val |-> cur]

\* unmarshalTableValue(src, dest) for a field of the kind that holds cur; src
\* is <<>> for a nil *proto.Value and <<value>> otherwise. The result is the
\* error and the new contents of the field.
unmarshalTableValue(src, kind, cur) ==
    IF src = <<>> THEN [err |-> nil, val |-> ZeroOf(kind)]
    ELSE LET v == src[1] IN
    CASE kind = "string" ->
            IF v.Integer # <<>>
            THEN [err |-> CErr("unable to unmarshal integer value"), val |-> cur]
            ELSE [err |-> nil, val |-> IF v.Bytes # <<>> THEN v.Bytes[1] ELSE <<>>]
      [] kind = "bytes" ->
            IF v.Integer # <<>>
            THEN [err |-> CErr("unable to unmarshal integer value"), val |-> cur]
            ELSE [err |-> nil, val |-> v.Bytes]
      [] kind = "bool" ->
            IF v.Bytes # <<>>
            THEN [err |-> CErr("unable to unmarshal byts value"), val |-> cur]
            ELSE [err |-> nil, val |-> GetInteger(v) # 0]
      [] kind = "int" ->
            IF v.Bytes # <<>>
            THEN [err |-> CErr("unable to unmarshal byts value"), val |-> cur]
            ELSE [err |-> nil, val |-> GetInteger(v)]
      [] kind = "uint" ->
            IF v.Bytes # <<>>
            THEN [err |-> CErr("unable to unmarshal byts value"), val |-> cur]
            ELSE [err |-> nil, val |-> ToUint64(GetInteger(v))]
      [] kind = "float" ->
            IF v.Bytes # <<>>
            THEN [err |-> CErr("unable to unmarshal byts value"), val |-> cur]
            ELSE [err |-> nil, val |-> Float64frombits(ToUint64(GetInteger(v)))]
      [] OTHER -> [err |-> CErr("unable to unmarshal value"), val |-> cur]

-----------------------------------------------------------------------------
(* client/table.go: keys. *)

\* roachencoding.EncodeBytes(b, data): the bytes with 00 escaped as 00 ff,
\* ended by the terminator 00 01.
RECURSIVE Escape(_)
Escape(data) ==
    IF data = <<>> THEN <<>>
    ELSE (IF Head(data) = "00" THEN <<"00", "ff">> ELSE <<Head(data)>>) \o Escape(Tail(data))

EncodeBytes(b, data) == b \o Escape(data) \o <<"00", "01">>

\* roachencoding.EncodeVarint, EncodeUvarint, EncodeNumericFloat: a tag byte
\* and the value.
EncodeNumber(b, tag, v) == b \o <<tag, ToString(v)>>

\* encodeTableKey(b, v) for a field of the kind
encodeTableKey(b, kind, v) ==
    CASE kind = "string" -> [err |-> nil, key |-> EncodeBytes(b, v)]
      [] kind = "bytes" ->
            [err |-> nil, key |-> EncodeBytes(b, IF v = <<>> THEN <<>> ELSE v[1])]
      [] kind = "bool" -> [err |-> nil, key |-> EncodeNumber(b, "vi", IF v THEN 1 ELSE 0)]
      [] kind = "int" -> [err |-> nil, key |-> EncodeNumber(b, "vi", v)]
      [] kind = "uint" -> [err |-> nil, key |-> EncodeNumber(b, "vu", v)]
      [] kind = "float" -> [err |-> nil, key |-> EncodeNumber(b, "vf", v)]
      [] OTHER -> [err |-> CErr("unable to encode key"), key |-> <<>>]

\* for _, col := range m.primaryKey (encodePrimaryKey)
RECURSIVE encodePrimaryKeyFrom(_, _, _, _)
encodePrimaryKeyFrom(m, val, i, key) ==
    IF i > Len(m.primaryKey) THEN [err |-> nil, key |-> key]
    ELSE LET col == m.primaryKey[i] IN
         IF col \notin DOMAIN m.fields
         THEN [err |-> CErr("unable to find field"), key |-> <<>>]
         ELSE LET r == encodeTableKey(key, m.fields[col], val[col]) IN
              IF r.err # nil THEN [err |-> r.err, key |-> <<>>]
              ELSE encodePrimaryKeyFrom(m, val, i + 1, r.key)

\* m.encodePrimaryKey(v)
encodePrimaryKey(m, val) == encodePrimaryKeyFrom(m, val, 1, EncodeBytes(<<>>, m.name))

\* m.encodeColumnKey(primaryKey, column)
encodeColumnKey(primaryKey, column) == primaryKey \o column

\* bytes.HasPrefix(k, p)
HasPrefix(k, p) == Len(p) <= Len(k) /\ SubSeq(k, 1, Len(p)) = p

\* The bytes of the keys in increasing order.
ByteOrder ==
    <<"00", "01", "a", "b", "c", "d", "e", "f", "g", "h", "i", "j", "k", "l", "m", "n",
      "o", "p", "q", "r", "s", "t", "u", "v", "w", "x", "y", "z", "ff">>

ByteRank(c) ==
    IF \E i \in DOMAIN ByteOrder : ByteOrder[i] = c
    THEN CHOOSE i \in DOMAIN ByteOrder : ByteOrder[i] = c
    ELSE Len(ByteOrder) + 1

\* bytes.Compare(a, b) < 0: the order of the keys in the store
RECURSIVE KeyLess(_, _)
KeyLess(a, b) ==
    IF b = <<>> THEN FALSE
    ELSE IF a = <<>> THEN TRUE
    ELSE IF Head(a) = Head(b) THEN KeyLess(Tail(a), Tail(b))
    ELSE ByteRank(Head(a)) < ByteRank(Head(b))

\* roachencoding.DecodeBytes(b, nil): the bytes up to the terminator 00 01
\* with 00 ff read as 00, and the bytes after the terminator.
RECURSIVE DecodeBytesFrom(_, _)
DecodeBytesFrom(b, data) ==
    IF Len(b) < 2 THEN [rest |-> <<>>, data |-> data \o b]
    ELSE IF b[1] = "00" /\ b[2] = "01" THEN [rest |-> SubSeq(b, 3, Len(b)), data |-> data]
    ELSE IF b[1] = "00" /\ b[2] = "ff"
         THEN DecodeBytesFrom(SubSeq(b, 3, Len(b)), Append(data, "00"))
    ELSE DecodeBytesFrom(Tail(b), Append(data, b[1]))

DecodeBytes(b) == DecodeBytesFrom(b, <<>>)

\* roachencoding.DecodeVarint, DecodeUvarint, DecodeNumericFloat: the value
\* after the tag byte, among the values vs the kind has.
DecodeNumber(b, vs) ==
    IF Len(b) >= 2 /\ \E v \in vs : ToString(v) = b[2]
    THEN [rest |-> SubSeq(b, 3, Len(b)), v |-> CHOOSE v \in vs : ToString(v) = b[2]]
    ELSE [rest |-> <<>>, v |-> CHOOSE v \in vs : TRUE]

\* The result of decodeTableKey from what the decoder d returned: the bytes
\* as a string or a []byte, the number as a bool or as it is.
DecodedBytes(d, asSlice) ==
    [err |-> nil, rest |-> d.rest, val |-> IF asSlice THEN <<d.data>> ELSE d.data]

DecodedNumber(d, asBool) ==
    [err |-> nil, rest |-> d.rest, val |-> IF asBool THEN d.v # 0 ELSE d.v]

\* decodeTableKey(b, v) for a field of the kind: the remaining bytes and the
\* new contents of the field
decodeTableKey(b, kind) ==
    CASE kind = "string" -> DecodedBytes(DecodeBytes(b), FALSE)
      [] kind = "bytes" -> DecodedBytes(DecodeBytes(b), TRUE)
      [] kind = "bool" -> DecodedNumber(DecodeNumber(b, MinInt64..MaxInt64), TRUE)
      [] kind = "int" -> DecodedNumber(DecodeNumber(b, MinInt64..MaxInt64), FALSE)
      [] kind = "uint" -> DecodedNumber(DecodeNumber(b, 0..MaxUint64), FALSE)
      [] kind = "float" ->
            DecodedNumber(DecodeNumber(b, {"0.0", "1.5", "-0.0", "-1.5"}), FALSE)
      [] OTHER -> [err |-> CErr("unable to decode key"), rest |-> <<>>, val |-> <<>>]

\* for _, col := range m.primaryKey (decodePrimaryKey); decodeColumn is the
\* loop body after decodeTableKey returned d
RECURSIVE decodePrimaryKeyFrom(_, _, _, _)
RECURSIVE decodeColumn(_, _, _, _)
decodeColumn(m, val, i, d) ==
    IF d.err # nil THEN [err |-> d.err, rest |-> <<>>, val |-> val]
    ELSE decodePrimaryKeyFrom(m, d.rest, [val EXCEPT ![m.primaryKey[i]] = d.val], i + 1)

decodePrimaryKeyFrom(m, key, val, i) ==
    IF i > Len(m.primaryKey) THEN [err |-> nil, rest |-> key, val |-> val]
    ELSE IF m.primaryKey[i] \notin DOMAIN m.fields
    THEN [err |-> CErr("unable to find field"), rest |-> <<>>, val |-> val]
    ELSE decodeColumn(m, val, i, decodeTableKey(key, m.fields[m.primaryKey[i]]))

\* decodePrimaryKey after the table name was decoded as d
decodeNamed(m, val, d) ==
    IF d.data # m.name
    THEN [err |-> CErr("unexpected table name"), rest |-> <<>>, val |-> val]
    ELSE decodePrimaryKeyFrom(m, d.rest, val, 1)

\* m.decodePrimaryKey(key, v): the error, the remaining bytes (the column
\* name) and the record with its primary key fields set
decodePrimaryKey(m, key, val) == decodeNamed(m, val, DecodeBytes(key))

-----------------------------------------------------------------------------
(* client/table.go: DB.BindModel, DB.getModel. A reflect.Type is the record *)
(* type and whether it is a pointer to it.                                  *)

\* deref(t): the type pointed to when t is a pointer type
deref(typ) == typ.type

\* The declaration order of the fields of the record type.
FieldOrder(t) ==
    IF t = "User" THEN <<cId, cName, cRaw, cOk>> ELSE <<cKey, cN, cU, cF>>

Reverse(q) == [i \in 1..Len(q) |-> q[Len(q) + 1 - i]]

SeqRange(q) == {q[i] : i \in DOMAIN q}

\* Orders in which "for col := range m.fields" may visit the columns that are
\* not primary-key columns: the declaration order and its reverse.
OtherColumnOrders(t, primaryKey) ==
    LET NotKey(c) == c \notin SeqRange(primaryKey)
        fwd == SelectSeq(FieldOrder(t), NotKey)
    IN  {fwd, Reverse(fwd)}

\* The model BindModel builds (m := &model{...} and the otherColumns loop).
newModel(name, t, primaryKey, others) ==
    [name |-> name, fields |-> getDBFields(t), primaryKey |-> primaryKey,
     otherColumns |-> others]

\* db.getModel(t, mustBePointer)
getModel(models, typ, mustBePointer) ==
    IF mustBePointer /\ ~typ.ptr
    THEN [err |-> CErr("pointer type required"), m |-> <<>>]
    ELSE IF deref(typ) \in DOMAIN models
         THEN [err |-> nil, m |-> models[deref(typ)]]
         ELSE [err |-> CErr("unable to find model"), m |-> <<>>]

-----------------------------------------------------------------------------
(* client/table.go: Batch.PutStruct, Batch.GetStruct. A setup returns the   *)
(* error, the calls to append and the row prefix; a call is the KV request, *)
(* and for a Get the record (index in heap) and field its Post decodes to.  *)

NoSetup(e) == [err |-> e, calls |-> <<>>, prefix |-> <<>>]

\* The loop of PutStruct appending to b.calls as it goes: the calls of the
\* columns before the failing one stay enqueued.
RECURSIVE putCalls_keepsEarlier(_, _, _, _, _, _)
putCalls_keepsEarlier(m, primaryKey, val, columns, i, acc) ==
    IF i > Len(columns) THEN [err |-> nil, calls |-> acc, prefix |-> primaryKey]
    ELSE IF columns[i] \notin DOMAIN m.fields
    THEN [err |-> CErr("unable to find field"), calls |-> acc, prefix |-> <<>>]
    ELSE putCalls_keepsEarlier(m, primaryKey, val, columns, i + 1,
                               Append(acc, [op |-> "Put",
                                            key |-> encodeColumnKey(primaryKey, columns[i]),
                                            value |-> marshalTableValue(m.fields[columns[i]],
                                                                        val[columns[i]]).val,
                                            obj |-> 0, col |-> columns[i]]))

\* for _, col := range columns (PutStruct)
RECURSIVE putCalls(_, _, _, _, _, _)
putCalls(m, primaryKey, val, columns, i, acc) ==
    IF i > Len(columns) THEN [err |-> nil, calls |-> acc, prefix |-> primaryKey]
    ELSE LET col == columns[i] IN
         IF col \notin DOMAIN m.fields THEN NoSetup(CErr("unable to find field"))
         ELSE LET v == marshalTableValue(m.fields[col], val[col]) IN
              IF v.err # nil THEN NoSetup(v.err)
              ELSE putCalls(m, primaryKey, val, columns, i + 1,
                            Append(acc, [op |-> "Put",
                                         key |-> encodeColumnKey(primaryKey, col),
                                         value |-> v.val, obj |-> 0, col |-> col]))

\* PutStruct that takes every field of the model for an empty column list.
putStructSetup_allColumns(models, obj, columns) ==
    LET g == getModel(models, obj.typ, FALSE) IN
    IF g.err # nil THEN NoSetup(g.err)
    ELSE LET k == encodePrimaryKey(g.m, obj.val) IN
         IF k.err # nil THEN NoSetup(k.err)
         ELSE putCalls(g.m, k.key, obj.val,
                       IF Len(columns) = 0
                       THEN FieldOrder(deref(obj.typ))
                       ELSE columns, 1, <<>>)

\* b.PutStruct(obj, columns...) up to the append to b.calls
putStructSetup(models, obj, columns) ==
    LET g == getModel(models, obj.typ, FALSE) IN
    IF g.err # nil THEN NoSetup(g.err)
    ELSE LET k == encodePrimaryKey(g.m, obj.val) IN
         IF k.err # nil THEN NoSetup(k.err)
         ELSE putCalls(g.m, k.key, obj.val,
                       IF Len(columns) = 0 THEN g.m.otherColumns ELSE columns, 1, <<>>)

\* for _, col := range columns (GetStruct); at is the record's index in heap
RECURSIVE getCalls(_, _, _, _, _, _)
getCalls(m, primaryKey, at, columns, i, acc) ==
    IF i > Len(columns) THEN [err |-> nil, calls |-> acc, prefix |-> primaryKey]
    ELSE LET col == columns[i] IN
         IF col \notin DOMAIN m.fields THEN NoSetup(CErr("unable to find field"))
         ELSE getCalls(m, primaryKey, at, columns, i + 1,
                       Append(acc, [op |-> "Get",
                                    key |-> encodeColumnKey(primaryKey, col),
                                    value |-> NoValue, obj |-> at, col |-> col]))

\* b.GetStruct(obj, columns...) up to the append to b.calls
getStructSetup(models, obj, at, columns) ==
    LET g == getModel(models, obj.typ, TRUE) IN
    IF g.err # nil THEN NoSetup(g.err)
    ELSE LET k == encodePrimaryKey(g.m, obj.val) IN
         IF k.err # nil THEN NoSetup(k.err)
         ELSE getCalls(g.m, k.key, at,
                       IF Len(columns) = 0 THEN g.m.otherColumns ELSE columns, 1, <<>>)

-----------------------------------------------------------------------------
(* client/table.go: Batch.IncStruct, Batch.ScanStruct, Batch.DelStruct.     *)

\* b.IncStruct(obj, value, column) up to the append to b.calls; at is the
\* record's index in heap
incStructSetup(models, obj, at, value, column) ==
    LET g == getModel(models, obj.typ, TRUE) IN
    IF g.err # nil THEN NoSetup(g.err)
    ELSE LET k == encodePrimaryKey(g.m, obj.val) IN
         IF k.err # nil THEN NoSetup(k.err)
         ELSE IF column \notin DOMAIN g.m.fields THEN NoSetup(CErr("unable to find field"))
         ELSE [err |-> nil,
               calls |-> <<[op |-> "Inc", key |-> encodeColumnKey(k.key, column),
                            value |-> value, obj |-> at, col |-> column]>>,
               prefix |-> k.key]

\* for _, col := range columns (DelStruct)
RECURSIVE delCalls(_, _, _, _, _)
delCalls(m, primaryKey, columns, i, acc) ==
    IF i > Len(columns) THEN [err |-> nil, calls |-> acc, prefix |-> primaryKey]
    ELSE LET col == columns[i] IN
         IF col \notin DOMAIN m.fields THEN NoSetup(CErr("unable to find field"))
         ELSE delCalls(m, primaryKey, columns, i + 1,
                       Append(acc, [op |-> "Del", key |-> encodeColumnKey(primaryKey, col),
                                    value |-> NoValue, obj |-> 0, col |-> col]))

\* b.DelStruct(obj, columns...) up to the append to b.calls
delStructSetup(models, obj, columns) ==
    LET g == getModel(models, obj.typ, FALSE) IN
    IF g.err # nil THEN NoSetup(g.err)
    ELSE LET k == encodePrimaryKey(g.m, obj.val) IN
         IF k.err # nil THEN NoSetup(k.err)
         ELSE delCalls(g.m, k.key,
                       IF Len(columns) = 0 THEN g.m.otherColumns ELSE columns, 1, <<>>)

\* c := Scan(proto.Key(startKey), proto.Key(endKey), maxRows) with its Post,
\* after the keys were encoded as startKey and endKey
scanCall(dest, at, maxRows, columns, startKey, endKey) ==
    IF startKey.err # nil THEN NoSetup(startKey.err)
    ELSE IF endKey.err # nil THEN NoSetup(endKey.err)
    ELSE [err |-> nil,
          calls |-> <<[op |-> "Scan", key |-> startKey.key, value |-> NoValue,
                       obj |-> at, col |-> <<>>, end |-> endKey.key,
                       maxRows |-> maxRows, columns |-> columns,
                       type |-> deref(dest.elem), captured |-> dest.val]>>,
          prefix |-> startKey.key]

\* ScanStruct after getModel returned g
scanTyped(g, dest, at, start, end, maxRows, columns) ==
    IF g.err # nil THEN NoSetup(g.err)
    ELSE IF deref(start.typ) # deref(dest.elem)
    THEN NoSetup(CErr("incompatible start key type"))
    ELSE IF deref(end.typ) # deref(dest.elem)
    THEN NoSetup(CErr("incompatible end key type"))
    ELSE scanCall(dest, at, maxRows, columns,
                  encodePrimaryKey(g.m, start.val), encodePrimaryKey(g.m, end.val))

\* b.ScanStruct(dest, start, end, maxRows, columns...) up to the append to
\* b.calls. dest is what the caller passes: whether it is a pointer, whether
\* it points to a slice, the element type, and the slice's contents; at is
\* the slice's index in heap.
scanStructSetup(models, dest, at, start, end, maxRows, columns) ==
    IF ~dest.isPtr THEN NoSetup(CErr("dest must be a pointer to a slice"))
    ELSE IF ~dest.isSlice THEN NoSetup(CErr("dest must be a pointer to a slice"))
    ELSE scanTyped(getModel(models, [type |-> deref(dest.elem), ptr |-> FALSE], FALSE),
                   dest, at, start, end, maxRows, columns)

-----------------------------------------------------------------------------
(* Running a batch: the calls are dispatched to the key-value store in     *)
(* enqueue order, then the Post decoders run in enqueue order.             *)

\* The keys of the set in increasing order.
RECURSIVE SortKeys(_)
SortKeys(ks) ==
    IF ks = {} THEN <<>>
    ELSE LET least == CHOOSE k \in ks : \A o \in ks \ {k} : KeyLess(k, o)
         IN  <<least>> \o SortKeys(ks \ {least})

\* The reply of the store to Scan(start, end, maxRows): the key-value pairs
\* with start <= key < end in key order, maxRows of them at most.
scanReply(st, start, end, maxRows) ==
    LET inRange == {k \in DOMAIN st : ~KeyLess(k, start) /\ KeyLess(k, end)}
        keys == SortKeys(inRange)
        n == IF Len(keys) > maxRows THEN maxRows ELSE Len(keys)
    IN  [i \in 1..n |-> [key |-> keys[i], value |-> st[keys[i]]]]

\* The store after the call, and the call's reply: for a Get <<>> when the
\* key is absent and <<value>> otherwise, for an Increment the new value,
\* for a Scan the pairs.
RECURSIVE dispatch(_, _, _, _)
dispatch(cs, i, st, replies) ==
    IF i > Len(cs) THEN [store |-> st, replies |-> replies]
    ELSE LET c == cs[i] IN
         CASE c.op = "Put" ->
                dispatch(cs, i + 1,
                         [k \in DOMAIN st \cup {c.key} |-> IF k = c.key THEN c.value ELSE st[k]],
                         Append(replies, <<>>))
           [] c.op = "Del" ->
                dispatch(cs, i + 1, [k \in DOMAIN st \ {c.key} |-> st[k]],
                         Append(replies, <<>>))
           [] c.op = "Inc" ->
                LET old == IF c.key \in DOMAIN st THEN GetInteger(st[c.key]) ELSE 0
                    new == old + c.value
                IN  dispatch(cs, i + 1,
                             [k \in DOMAIN st \cup {c.key} |->
                                IF k = c.key THEN [Integer |-> <<new>>, Bytes |-> <<>>]
                                ELSE st[k]],
                             Append(replies, new))
           [] c.op = "Scan" ->
                dispatch(cs, i + 1, st,
                         Append(replies, scanReply(st, c.key, c.end, c.maxRows)))
           [] OTHER ->
                dispatch(cs, i + 1, st,
                         Append(replies, IF c.key \in DOMAIN st THEN <<st[c.key]>> ELSE <<>>))

\* reflect.Zero(result.Type()) for a record of the type
ZeroRecord(t) == [c \in DOMAIN getDBFields(t) |-> ZeroOf(getDBFields(t)[c])]

\* The start of the loop body without the append: the record in flight is
\* dropped when the next row starts.
scanNewRow_noAppend(result, slice, d) ==
    [err |-> d.err, slice |-> slice, result |-> d.val]

\* The start of the loop body, when row.Key is outside the current row: the
\* record in flight is appended, and a zeroed record takes the primary key
\* that decodePrimaryKey(primaryKey, result) returned as d.
scanNewRow(result, slice, d) ==
    [err |-> d.err, slice |-> Append(slice, result), result |-> d.val]

\* The end of the loop body: the field of the column takes what
\* unmarshalTableValue returned as u.
scanField(d, primaryKey, u) ==
    [err |-> u.err, result |-> [d.val EXCEPT ![d.rest] = u.val], primaryKey |-> primaryKey]

\* The rest of the loop body, after decodePrimaryKey(row.Key, result)
\* returned d: the rest of the key is the column, and the value is
\* unmarshalled unless the column is not asked for. The result is the error,
\* the record and the new primaryKey.
scanCell(m, scanCols, row, result, d) ==
    IF d.err # nil THEN [err |-> d.err, result |-> result, primaryKey |-> <<>>]
    ELSE IF Len(scanCols) > 0 /\ d.rest \notin SeqRange(scanCols)
    THEN [err |-> nil, result |-> d.val,
          primaryKey |-> SubSeq(row.key, 1, Len(row.key) - Len(d.rest))]
    ELSE IF d.rest \notin DOMAIN m.fields
    THEN [err |-> CErr("unable to find field"), result |-> d.val, primaryKey |-> <<>>]
    ELSE scanField(d, SubSeq(row.key, 1, Len(row.key) - Len(d.rest)),
                   unmarshalTableValue(<<row.value>>, m.fields[d.rest], d.val[d.rest]))

\* for _, row := range reply.Rows (the Post of ScanStruct): primaryKey is
\* <<>> while nil and <<key>> afterwards, result the record being filled,
\* slice the value of sliceV. The last step appends the record in flight.
\* scanRowsAt is the loop body after its start returned a, scanRowsNext
\* the step to the next row after the rest of the body returned c.
RECURSIVE scanRows(_, _, _, _, _, _, _, _)
RECURSIVE scanRowsAt(_, _, _, _, _, _)
RECURSIVE scanRowsNext(_, _, _, _, _, _, _)
scanRowsNext(m, t, scanCols, rows, i, slice, c) ==
    IF c.err # nil THEN [err |-> c.err, slice |-> slice]
    ELSE scanRows(m, t, scanCols, rows, i + 1, <<c.primaryKey>>, c.result, slice)

scanRowsAt(m, t, scanCols, rows, i, a) ==
    IF a.err # nil THEN [err |-> a.err, slice |-> a.slice]
    ELSE scanRowsNext(m, t, scanCols, rows, i, a.slice,
                      scanCell(m, scanCols, rows[i], a.result,
                               decodePrimaryKey(m, rows[i].key, a.result)))

scanRows(m, t, scanCols, rows, i, primaryKey, result, slice) ==
    IF i > Len(rows) THEN [err |-> nil, slice |-> Append(slice, result)]
    ELSE scanRowsAt(m, t, scanCols, rows, i,
                    IF primaryKey # <<>> /\ ~HasPrefix(rows[i].key, primaryKey[1])
                    THEN scanNewRow(result, slice,
                                    decodePrimaryKey(m, primaryKey[1], ZeroRecord(t)))
                    ELSE [err |-> nil, slice |-> slice, result |-> result])

\* The slice the Post of ScanStruct appends to: sliceV refers to the
\* caller's slice variable, read when the Post runs.
scanBefore_captured(c, hp) == c.captured

scanBefore(c, hp) == hp[c.obj].val

\* The Post of ScanStruct after the loop returned r: the slice is stored
\* through dest unless the loop returned an error.
scanStored(c, hp, r) ==
    IF r.err # nil THEN [err |-> r.err, slice |-> hp[c.obj].val] ELSE r

\* c.Post of ScanStruct: the error and the new contents of the slice
scanPost(models, c, reply, hp) ==
    IF Len(reply) = 0 THEN [err |-> nil, slice |-> hp[c.obj].val]
    ELSE scanStored(c, hp,
                    scanRows(models[c.type], c.type, c.columns, reply, 1, <<>>,
                             ZeroRecord(c.type), scanBefore(c, hp)))

\* The value the Post of IncStruct unmarshals, with the delta of the call in
\* place of the reply.
incPostValue_delta(c, reply) == [Integer |-> <<c.value>>, Bytes |-> <<>>]

\* pv := &proto.Value{Integer: gogoproto.Int64(reply.NewValue)}
incPostValue(c, reply) == [Integer |-> <<reply>>, Bytes |-> <<>>]

\* The Post decoders of the calls in enqueue order. Get:
\* unmarshalTableValue(reply.Value, v.FieldByIndex(f.Index)); Increment: the
\* same on a value that holds reply.NewValue; Scan: scanPost. log lists for
\* every Scan the slice, what it held when the Post started, and the reply.
\* postField and postSlice store what the decoder returned as u and r.
RECURSIVE runPosts(_, _, _, _, _, _, _)
RECURSIVE postField(_, _, _, _, _, _, _, _)
RECURSIVE postSlice(_, _, _, _, _, _, _, _)
postField(models, cs, replies, i, hp, errs, log, u) ==
    runPosts(models, cs, replies, i + 1,
             [hp EXCEPT ![cs[i].obj].val[cs[i].col] = u.val], Append(errs, u.err), log)

postSlice(models, cs, replies, i, hp, errs, log, r) ==
    runPosts(models, cs, replies, i + 1,
             [hp EXCEPT ![cs[i].obj].val = r.slice], Append(errs, r.err),
             Append(log, [at |-> cs[i].obj, call |-> i, before |-> hp[cs[i].obj].val,
                          after |-> r.slice, rows |-> replies[i], err |-> r.err]))

runPosts(models, cs, replies, i, hp, errs, log) ==
    IF i > Len(cs) THEN [heap |-> hp, errs |-> errs, log |-> log]
    ELSE CASE cs[i].op = "Get" ->
                postField(models, cs, replies, i, hp, errs, log,
                          unmarshalTableValue(replies[i],
                                              getDBFields(hp[cs[i].obj].typ.type)[cs[i].col],
                                              hp[cs[i].obj].val[cs[i].col]))
           [] cs[i].op = "Inc" ->
                postField(models, cs, replies, i, hp, errs, log,
                          unmarshalTableValue(<<incPostValue(cs[i], replies[i])>>,
                                              getDBFields(hp[cs[i].obj].typ.type)[cs[i].col],
                                              hp[cs[i].obj].val[cs[i].col]))
           [] cs[i].op = "Scan" ->
                postSlice(models, cs, replies, i, hp, errs, log,
                          scanPost(models, cs[i], replies[i], hp))
           [] OTHER -> runPosts(models, cs, replies, i + 1, hp, Append(errs, nil), log)

\* History over the entries of the batch, in order: lf maps a row prefix to
\* the record last Put there with an empty column list (dropped by any other
\* write to the row); log lists, for each Get with an empty column list of a
\* row that has such a record of the same type, the record read into and the
\* record expected.
RECURSIVE history(_, _, _, _)
history(entries, i, lf, log) ==
    IF i > Len(entries) THEN [lastFull |-> lf, log |-> log]
    ELSE LET e == entries[i] IN
         IF e.err # nil THEN history(entries, i + 1, lf, log)
         ELSE IF e.kind = "Put"
         THEN history(entries, i + 1,
                      IF Len(e.columns) = 0
                      THEN [p \in DOMAIN lf \cup {e.prefix} |->
                              IF p = e.prefix THEN [type |-> e.type, val |-> e.val]
                              ELSE lf[p]]
                      ELSE [p \in DOMAIN lf \ {e.prefix} |-> lf[p]],
                      log)
         ELSE IF e.kind \in {"Del", "Inc"}
         THEN history(entries, i + 1, [p \in DOMAIN lf \ {e.prefix} |-> lf[p]], log)
         ELSE IF e.kind = "Scan" THEN history(entries, i + 1, lf, log)
         ELSE history(entries, i + 1, lf,
                      IF /\ Len(e.columns) = 0
                         /\ e.prefix \in DOMAIN lf
                         /\ lf[e.prefix].type = e.type
                      THEN Append(log, [at |-> e.at, expect |-> lf[e.prefix].val])
                      ELSE log)

\* History over the calls of the batch, in order: tot maps a cell key to
\* <<the sum of the deltas of the Increments>> since the cell was absent, and
\* to <<>> once the cell was Put; a key that was never written is not mapped.
RECURSIVE totals(_, _, _)
totals(cs, i, tot) ==
    IF i > Len(cs) THEN tot
    ELSE LET c == cs[i]
             with(v) == [k \in DOMAIN tot \cup {c.key} |-> IF k = c.key THEN v ELSE tot[k]]
         IN
         CASE c.op = "Put" -> totals(cs, i + 1, with(<<>>))
           [] c.op = "Del" -> totals(cs, i + 1, with(<<0>>))
           [] c.op = "Inc" ->
                totals(cs, i + 1,
                       IF c.key \notin DOMAIN tot THEN with(<<c.value>>)
                       ELSE IF tot[c.key] = <<>> THEN tot
                       ELSE with(<<tot[c.key][1] + c.value>>))
           [] OTHER -> totals(cs, i + 1, tot)

-----------------------------------------------------------------------------
(* Inputs of the client operations. *)

User == [type |-> "User", ptr |-> FALSE]
UserPtr == [type |-> "User", ptr |-> TRUE]
Counter == [type |-> "Counter", ptr |-> FALSE]
CounterPtr == [type |-> "Counter", ptr |-> TRUE]

\* Arguments of BindModel: a type; the same type by a handle and for another
\* table; a primary key with a column the type does not have; a second type.
BindArgs ==
    {[name |-> <<"u">>, typ |-> User, primaryKey |-> <<cId>>],
     [name |-> <<"c">>, typ |-> UserPtr, primaryKey |-> <<cId>>],
     [name |-> <<"u">>, typ |-> User, primaryKey |-> <<cId, cNone>>],
     [name |-> <<"c">>, typ |-> CounterPtr, primaryKey |-> <<cKey>>]}

\* Records of the caller: values that exercise every branch of the
\* marshaller, the zero values, and a record of another row.
UserFull == (cId :> <<"k">>) @@ (cName :> <<"x", "y">>) @@ (cRaw :> <<<<"00", "x">>>>) @@ (cOk :> TRUE)
UserKeyOnly == (cId :> <<"k">>) @@ (cName :> <<>>) @@ (cRaw :> <<>>) @@ (cOk :> FALSE)
UserOther == (cId :> <<"j">>) @@ (cName :> <<"x">>) @@ (cRaw :> <<<<>>>>) @@ (cOk :> FALSE)
UserEmpty == (cId :> <<"k">>) @@ (cName :> <<>>) @@ (cRaw :> <<<<>>>>) @@ (cOk :> FALSE)
CounterFull == (cKey :> <<"k">>) @@ (cN :> MinInt64) @@ (cU :> MaxUint64) @@ (cF :> "-1.5")
CounterKeyOnly == (cKey :> <<"k">>) @@ (cN :> 0) @@ (cU :> 0) @@ (cF :> "0.0")

\* Arguments of PutStruct.
PutArgs ==
    {[obj |-> [typ |-> User, val |-> UserFull], columns |-> <<>>],
     [obj |-> [typ |-> UserPtr, val |-> UserOther], columns |-> <<>>],
     [obj |-> [typ |-> UserPtr, val |-> UserEmpty], columns |-> <<>>],
     [obj |-> [typ |-> User, val |-> UserKeyOnly], columns |-> <<>>],
     [obj |-> [typ |-> User, val |-> UserKeyOnly], columns |-> <<cName>>],
     [obj |-> [typ |-> User, val |-> UserFull], columns |-> <<cName, cNone>>],
     [obj |-> [typ |-> Counter, val |-> CounterFull], columns |-> <<>>]}

\* Arguments of GetStruct.
GetArgs ==
    {[obj |-> [typ |-> UserPtr, val |-> UserKeyOnly], columns |-> <<>>],
     [obj |-> [typ |-> UserPtr, val |-> UserFull], columns |-> <<cName>>],
     [obj |-> [typ |-> User, val |-> UserKeyOnly], columns |-> <<>>],
     [obj |-> [typ |-> UserPtr, val |-> UserKeyOnly], columns |-> <<cNone, cName>>],
     [obj |-> [typ |-> CounterPtr, val |-> CounterKeyOnly], columns |-> <<>>]}

-----------------------------------------------------------------------------
(* The client state machine. *)

\* The batch a new operation is invoked on: the current one, or a new one
\* (db.NewBatch()) once the current one has run.
CurCalls == IF getLog.ran THEN <<>> ELSE calls
CurResults == IF getLog.ran THEN <<>> ELSE results
CurHeap == IF getLog.ran THEN <<>> ELSE heap

NoLog == [ran |-> FALSE, gets |-> <<>>, errs |-> <<>>, scans |-> <<>>]

\* b.initResult(calls, numRows, err): the result entry of an operation, with
\* the operation's arguments when its setup succeeded.
Entry(kind, r, obj, columns, at) ==
    IF r.err # nil
    THEN [kind |-> kind, calls |-> 0, err |-> r.err, type |-> deref(obj.typ),
          val |-> <<>>, columns |-> <<>>, prefix |-> <<>>, at |-> 0]
    ELSE [kind |-> kind, calls |-> Len(r.calls), err |-> nil, type |-> deref(obj.typ),
          val |-> obj.val, columns |-> columns, prefix |-> r.prefix, at |-> at]

\* BindModel without the test of line 212: a later call replaces the model.
BindModel_overwrite(name, typ, primaryKey, others) ==
    /\ nops < limit
    /\ nops' = nops + 1
    /\ bindArgs' = <<[name |-> name, type |-> deref(typ), primaryKey |-> primaryKey]>>
    /\ experimentalModels' =
          [t \in DOMAIN experimentalModels \cup {deref(typ)} |->
             IF t = deref(typ) THEN newModel(name, deref(typ), primaryKey, others)
             ELSE experimentalModels[t]]
    /\ bindRet' = nil
    /\ modelsNil' = FALSE
    /\ UNCHANGED <<store, calls, results, heap, lastFull, getLog, incTotal>>
    /\ UNCHANGED <<pvars, kvars, limit>>

\* db.BindModel(name, obj, primaryKey...); others is the order in which the
\* fields map is ranged over.
BindModel(name, typ, primaryKey, others) ==
    /\ nops < limit
    /\ nops' = nops + 1
    /\ bindArgs' = <<[name |-> name, type |-> deref(typ), primaryKey |-> primaryKey]>>
    /\ IF deref(typ) \in DOMAIN experimentalModels
       THEN /\ bindRet' = CErr("model already defined")
            /\ UNCHANGED experimentalModels
       ELSE /\ experimentalModels' =
                  [t \in DOMAIN experimentalModels \cup {deref(typ)} |->
                     IF t = deref(typ) THEN newModel(name, deref(typ), primaryKey, others)
                     ELSE experimentalModels[t]]
            /\ bindRet' = nil
    /\ modelsNil' = FALSE
    /\ UNCHANGED <<store, calls, results, heap, lastFull, getLog, incTotal>>
    /\ UNCHANGED <<pvars, kvars, limit>>

\* b.PutStruct(obj, columns...)
PutStruct(obj, columns) ==
    /\ nops < limit
    /\ nops' = nops + 1
    /\ LET r == putStructSetup(experimentalModels, obj, columns) IN
       /\ calls' = CurCalls \o r.calls
       /\ results' = Append(CurResults, Entry("Put", r, obj, columns, 0))
    /\ heap' = CurHeap
    /\ getLog' = NoLog
    /\ UNCHANGED <<experimentalModels, modelsNil, store, bindArgs, bindRet, lastFull, incTotal>>
    /\ UNCHANGED <<pvars, kvars, limit>>

\* b.GetStruct(obj, columns...); obj is the caller's record, or a handle to it
\* when obj.typ.ptr
GetStruct(obj, columns) ==
    /\ nops < limit
    /\ nops' = nops + 1
    /\ LET at == Len(CurHeap) + 1
           r == getStructSetup(experimentalModels, obj, at, columns)
       IN
       /\ calls' = CurCalls \o r.calls
       /\ results' = Append(CurResults,
                            Entry("Get", r, obj, columns, IF r.calls = <<>> THEN 0 ELSE at))
       /\ heap' = IF r.calls = <<>> THEN CurHeap ELSE Append(CurHeap, obj)
    /\ getLog' = NoLog
    /\ UNCHANGED <<experimentalModels, modelsNil, store, bindArgs, bindRet, lastFull, incTotal>>
    /\ UNCHANGED <<pvars, kvars, limit>>

\* db.Run(b)
Run ==
    /\ nops < limit
    /\ nops' = nops + 1
    /\ ~getLog.ran
    /\ results # <<>>
    /\ LET d == dispatch(calls, 1, store, <<>>)
           q == runPosts(experimentalModels, calls, d.replies, 1, heap, <<>>, <<>>)
           h == history(results, 1, lastFull, <<>>)
       IN
       /\ store' = d.store
       /\ heap' = q.heap
       /\ lastFull' = h.lastFull
       /\ incTotal' = totals(calls, 1, incTotal)
       /\ getLog' = [ran |-> TRUE, gets |-> h.log, errs |-> q.errs, scans |-> q.log]
    /\ UNCHANGED <<experimentalModels, modelsNil, calls, results, bindArgs, bindRet>>
    /\ UNCHANGED <<pvars, kvars, limit>>

\* b.IncStruct(obj, value, column); obj is a handle to the record at index
\* at of heap: a record no earlier operation of the batch was given, or the
\* record an earlier one was given.
IncStruct(obj, value, column, at) ==
    /\ nops < limit
    /\ nops' = nops + 1
    /\ at \in 1..(Len(CurHeap) + 1)
    /\ at <= Len(CurHeap) => CurHeap[at] = obj
    /\ LET r == incStructSetup(experimentalModels, obj, at, value, column) IN
       /\ r.err # nil => at = Len(CurHeap) + 1
       /\ calls' = CurCalls \o r.calls
       /\ results' = Append(CurResults,
                            Entry("Inc", r, obj, <<column>>, IF r.err # nil THEN 0 ELSE at))
       /\ heap' = IF r.err = nil /\ at = Len(CurHeap) + 1 THEN Append(CurHeap, obj)
                  ELSE CurHeap
    /\ getLog' = NoLog
    /\ UNCHANGED <<experimentalModels, modelsNil, store, bindArgs, bindRet, lastFull, incTotal>>
    /\ UNCHANGED <<pvars, kvars, limit>>

\* b.DelStruct(obj, columns...)
DelStruct(obj, columns) ==
    /\ nops < limit
    /\ nops' = nops + 1
    /\ LET r == delStructSetup(experimentalModels, obj, columns) IN
       /\ calls' = CurCalls \o r.calls
       /\ results' = Append(CurResults, Entry("Del", r, obj, columns, 0))
    /\ heap' = CurHeap
    /\ getLog' = NoLog
    /\ UNCHANGED <<experimentalModels, modelsNil, store, bindArgs, bindRet, lastFull, incTotal>>
    /\ UNCHANGED <<pvars, kvars, limit>>

\* The caller's slice as a record of heap.
SliceObj(dest) ==
    [typ |-> [type |-> deref(dest.elem), ptr |-> dest.elem.ptr, slice |-> TRUE],
     val |-> dest.val]

\* b.ScanStruct(dest, start, end, maxRows, columns...); dest points to the
\* slice at index at of heap: a slice no earlier operation of the batch was
\* given, or the slice an earlier one was given.
ScanStruct(dest, start, end, maxRows, columns, at) ==
    /\ nops < limit
    /\ nops' = nops + 1
    /\ at \in 1..(Len(CurHeap) + 1)
    /\ at <= Len(CurHeap) => CurHeap[at] = SliceObj(dest)
    /\ LET r == scanStructSetup(experimentalModels, dest, at, start, end, maxRows, columns) IN
       /\ r.err # nil => at = Len(CurHeap) + 1
       /\ calls' = CurCalls \o r.calls
       /\ results' = Append(CurResults,
                            Entry("Scan", r, [typ |-> dest.elem, val |-> dest.val], columns,
                                  IF r.err # nil THEN 0 ELSE at))
       /\ heap' = IF r.err = nil /\ at = Len(CurHeap) + 1
                  THEN Append(CurHeap, SliceObj(dest))
                  ELSE CurHeap
    /\ getLog' = NoLog
    /\ UNCHANGED <<experimentalModels, modelsNil, store, bindArgs, bindRet, lastFull, incTotal>>
    /\ UNCHANGED <<pvars, kvars, limit>>

Init == ProtoIdle /\ ClientInit /\ ConcIdle

Next ==
    \/ \E a \in BindArgs : \E others \in OtherColumnOrders(deref(a.typ), a.primaryKey) :
          BindModel(a.name, a.typ, a.primaryKey, others)
    \/ \E a \in PutArgs : PutStruct(a.obj, a.columns)
    \/ \E a \in GetArgs : GetStruct(a.obj, a.columns)
    \/ Run

Spec == Init /\ [][Next]_vars

-----------------------------------------------------------------------------
(* Claims about the model registry and the row operations. *)

\* A step of Next that is a BindModel call: the only operation that leaves
\* the batch and the log of the last run alone.
BindStep == nops' = nops + 1 /\ results' = results /\ getLog' = getLog

\* C7: a type is bound at most once: a BindModel for a type that is already
\* bound returns an error and leaves the registry as it was, and no step
\* changes or removes the model of a bound type.
C7_BindOnce ==
    [][/\ \A t \in DOMAIN experimentalModels :
             /\ t \in DOMAIN experimentalModels'
             /\ experimentalModels'[t] = experimentalModels[t]
       /\ (BindStep /\ bindArgs'[1].type \in DOMAIN experimentalModels)
             => (bindRet' # nil /\ experimentalModels' = experimentalModels)]_vars

\* A second BindModel for a bound type, under another table name, failed and
\* the type is still bound to the first table.
C7_Witness ==
    /\ bindArgs # <<>>
    /\ bindRet # nil
    /\ bindRet # unset
    /\ bindArgs[1].type \in DOMAIN experimentalModels
    /\ experimentalModels[bindArgs[1].type].name # bindArgs[1].name

\* The last BindModel call named a primary key column that no field of the
\* type maps to.
UnknownKeyColumn ==
    /\ bindArgs # <<>>
    /\ \E i \in DOMAIN bindArgs[1].primaryKey :
          bindArgs[1].primaryKey[i] \notin DOMAIN getDBFields(bindArgs[1].type)

\* C8: a BindModel call whose primary key names a column that no field of the
\* type maps to returns an error.
C8_UnknownColumnRejected == UnknownKeyColumn => bindRet # nil

\* C10: after the run, every record read by a GetStruct with no column list,
\* from a row last written by a PutStruct with no column list of a record of
\* the same type, equals the record written, field for field.
C10_PutGetRoundTrip ==
    getLog.ran =>
        \A i \in DOMAIN getLog.gets :
            heap[getLog.gets[i].at].val = getLog.gets[i].expect

\* A run read back a record with the extreme signed and unsigned values and
\* a negative float into a handle that held only the key.
C10_Witness ==
    /\ getLog.ran
    /\ \E i \in DOMAIN getLog.gets :
          /\ getLog.gets[i].expect = CounterFull
          /\ heap[getLog.gets[i].at].val = CounterFull

\* A run read back a record whose bytes field is empty and not nil.
C10_EmptyReadBack ==
    /\ getLog.ran
    /\ \E i \in DOMAIN getLog.gets :
          /\ getLog.gets[i].expect = UserEmpty
          /\ heap[getLog.gets[i].at].val = UserEmpty

\* A run read back a record with string, bytes and bool fields.
C10_UserReadBack ==
    /\ getLog.ran
    /\ \E i \in DOMAIN getLog.gets :
          /\ getLog.gets[i].expect = UserFull
          /\ heap[getLog.gets[i].at].val = UserFull

-----------------------------------------------------------------------------
(* Claims about the calls an operation enqueues. *)

\* The number of calls the entries before entry i of the batch enqueued.
RECURSIVE CallsBefore(_)
CallsBefore(i) == IF i <= 1 THEN 0 ELSE CallsBefore(i - 1) + results[i - 1].calls

\* The calls entry i of the batch enqueued.
CallsOf(i) == SubSeq(calls, CallsBefore(i) + 1, CallsBefore(i) + results[i].calls)

\* Entry i is a PutStruct with an empty column list whose setup succeeded.
FullPut(i) == results[i].kind = "Put" /\ results[i].err = nil /\ results[i].columns = <<>>

-----------------------------------------------------------------------------
(* A caller that puts, gets and deletes rows of the table of User. *)

RowBindArgs == {[name |-> <<"u">>, typ |-> User, primaryKey |-> <<cId>>]}

RowPutArgs ==
    {[obj |-> [typ |-> User, val |-> UserFull], columns |-> <<>>],
     [obj |-> [typ |-> UserPtr, val |-> UserFull], columns |-> <<cId>>],
     [obj |-> [typ |-> User, val |-> UserOther], columns |-> <<>>]}

RowDelArgs ==
    {[obj |-> [typ |-> User, val |-> UserKeyOnly], columns |-> <<>>],
     [obj |-> [typ |-> UserPtr, val |-> UserKeyOnly], columns |-> <<cName>>],
     [obj |-> [typ |-> User, val |-> UserKeyOnly], columns |-> <<cName, cNone>>]}

RowGetArgs ==
    {[obj |-> [typ |-> UserPtr, val |-> UserFull], columns |-> <<>>],
     [obj |-> [typ |-> UserPtr, val |-> UserFull], columns |-> <<cId, cName>>]}

RowInit == ProtoIdle /\ ClientFresh /\ ConcIdle /\ limit = MaxRowOps

RowNext ==
    \/ \E a \in RowBindArgs : \E others \in OtherColumnOrders(deref(a.typ), a.primaryKey) :
          BindModel(a.name, a.typ, a.primaryKey, others)
    \/ \E a \in RowPutArgs : PutStruct(a.obj, a.columns)
    \/ \E a \in RowDelArgs : DelStruct(a.obj, a.columns)
    \/ \E a \in RowGetArgs : GetStruct(a.obj, a.columns)
    \/ Run

SpecRow == RowInit /\ [][RowNext]_vars

\* Entry i of the batch is followed by a write to a cell of the same row.
WrittenLater(i) ==
    \E j \in DOMAIN results :
        /\ j > i
        /\ results[j].err = nil
        /\ results[j].kind \in {"Put", "Inc"}
        /\ results[j].prefix = results[i].prefix

\* C12: after the run, no cell under the row prefix of a Delete with an empty
\* column list remains in the store (unless a later operation of the batch
\* wrote to the row).
C12_DeleteEntireRow ==
    getLog.ran =>
        \A i \in DOMAIN results :
            (/\ results[i].kind = "Del"
             /\ results[i].err = nil
             /\ results[i].columns = <<>>
             /\ ~WrittenLater(i))
            => \A k \in DOMAIN store : ~HasPrefix(k, results[i].prefix)

\* Entry i is a Get whose setup succeeded, of a row no operation of the batch
\* wrote to or deleted from and of which the store holds no cell.
GetOfMissingRow(i) ==
    /\ results[i].kind = "Get"
    /\ results[i].err = nil
    /\ \A k \in DOMAIN store : ~HasPrefix(k, results[i].prefix)
    /\ \A j \in DOMAIN results :
          (results[j].err = nil /\ results[j].kind \in {"Put", "Inc", "Del"})
          => results[j].prefix # results[i].prefix

\* The columns Get entry i asked for.
Requested(i) ==
    IF results[i].columns = <<>>
    THEN SeqRange(experimentalModels[results[i].type].otherColumns)
    ELSE SeqRange(results[i].columns)

\* The Posts of entry i returned no error and zeroed every requested field.
RequestedZeroed(i) ==
    /\ \A k \in 1..results[i].calls : getLog.errs[CallsBefore(i) + k] = nil
    /\ \A col \in Requested(i) :
          heap[results[i].at].val[col] = ZeroOf(getDBFields(results[i].type)[col])

\* C18 as stated: a Get of a row with no stored cell zeroes every requested
\* field without error and leaves the primary key fields unchanged.
C18_MissingRowKeepsKey ==
    getLog.ran =>
        \A i \in DOMAIN results :
            GetOfMissingRow(i) =>
                /\ RequestedZeroed(i)
                /\ \A col \in SeqRange(experimentalModels[results[i].type].primaryKey) :
                      heap[results[i].at].val[col] = results[i].val[col]

\* C18 amended: a Get of a row with no stored cell zeroes every requested
\* field without error, a requested primary key field included, and leaves
\* every field that was not requested unchanged.
C18_MissingRowZeroes ==
    getLog.ran =>
        \A i \in DOMAIN results :
            GetOfMissingRow(i) =>
                /\ RequestedZeroed(i)
                /\ \A col \in DOMAIN getDBFields(results[i].type) \ Requested(i) :
                      heap[results[i].at].val[col] = results[i].val[col]

\* A run read a missing row into a record whose fields were all set: the
\* fields that are not in the primary key are zero, the key is kept.
C18_Witness ==
    /\ getLog.ran
    /\ \E i \in DOMAIN results :
          /\ GetOfMissingRow(i)
          /\ results[i].val = UserFull
          /\ results[i].columns = <<>>
          /\ heap[results[i].at].val = UserKeyOnly

-----------------------------------------------------------------------------
(* Scans: a table of User rows with the primary key (id, name), written by *)
(* Puts and read back by Scans into slices of records and of handles.      *)

RowJ == (cId :> <<"j">>) @@ (cName :> <<"x">>) @@ (cRaw :> <<<<"00", "x">>>>) @@ (cOk :> TRUE)
RowK == (cId :> <<"k">>) @@ (cName :> <<"x", "y">>) @@ (cRaw :> <<<<"y">>>>) @@ (cOk :> TRUE)
KeyJ == (cId :> <<"j">>) @@ (cName :> <<>>) @@ (cRaw :> <<>>) @@ (cOk :> FALSE)
KeyK == (cId :> <<"k">>) @@ (cName :> <<>>) @@ (cRaw :> <<>>) @@ (cOk :> FALSE)
KeyL == (cId :> <<"l">>) @@ (cName :> <<>>) @@ (cRaw :> <<>>) @@ (cOk :> FALSE)

ScanBindArgs == {[name |-> <<"u">>, typ |-> User, primaryKey |-> <<cId, cName>>]}

ScanPutArgs ==
    {[obj |-> [typ |-> User, val |-> RowJ], columns |-> <<>>],
     [obj |-> [typ |-> UserPtr, val |-> RowK], columns |-> <<>>]}

\* dest: a pointer to an empty []User, a pointer to a []*User that holds a
\* record, a []User passed by value; start of another type.
ScanArgs ==
    {[dest |-> [isPtr |-> TRUE, isSlice |-> TRUE, elem |-> User, val |-> <<>>],
      start |-> [typ |-> User, val |-> KeyJ], end |-> [typ |-> User, val |-> KeyL],
      maxRows |-> 10, columns |-> <<>>],
     [dest |-> [isPtr |-> TRUE, isSlice |-> TRUE, elem |-> UserPtr, val |-> <<RowJ>>],
      start |-> [typ |-> UserPtr, val |-> KeyK], end |-> [typ |-> User, val |-> KeyL],
      maxRows |-> 1, columns |-> <<>>],
     [dest |-> [isPtr |-> TRUE, isSlice |-> TRUE, elem |-> User, val |-> <<>>],
      start |-> [typ |-> User, val |-> KeyJ], end |-> [typ |-> UserPtr, val |-> KeyL],
      maxRows |-> 3, columns |-> <<cRaw>>],
     [dest |-> [isPtr |-> FALSE, isSlice |-> TRUE, elem |-> User, val |-> <<>>],
      start |-> [typ |-> User, val |-> KeyJ], end |-> [typ |-> User, val |-> KeyL],
      maxRows |-> 10, columns |-> <<>>],
     [dest |-> [isPtr |-> TRUE, isSlice |-> TRUE, elem |-> User, val |-> <<>>],
      start |-> [typ |-> Counter, val |-> CounterKeyOnly], end |-> [typ |-> User, val |-> KeyL],
      maxRows |-> 10, columns |-> <<>>]}

ScanInit == ProtoIdle /\ ClientFresh /\ ConcIdle /\ limit = MaxScanOps

ScanNext ==
    \/ \E a \in ScanBindArgs : \E others \in OtherColumnOrders(deref(a.typ), a.primaryKey) :
          BindModel(a.name, a.typ, a.primaryKey, others)
    \/ \E a \in ScanPutArgs : PutStruct(a.obj, a.columns)
    \/ \E a \in ScanArgs : \E at \in 1..MaxScanOps :
          ScanStruct(a.dest, a.start, a.end, a.maxRows, a.columns, at)
    \/ Run

SpecScan == ScanInit /\ [][ScanNext]_vars

\* The row prefix of a cell key of the table: the key without the column.
RowPrefix(m, k) ==
    CHOOSE p \in {SubSeq(k, 1, n) : n \in 0..Len(k)} : \E col \in DOMAIN m.fields : k = p \o col

\* The indexes of the pairs of a reply that start a row.
RowStarts(m, rows) ==
    {i \in DOMAIN rows : i = 1 \/ RowPrefix(m, rows[i].key) # RowPrefix(m, rows[i - 1].key)}

\* The row prefix of the j-th row of a reply.
NthPrefix(m, rows, j) ==
    LET starts == RowStarts(m, rows)
        i == CHOOSE x \in starts : Cardinality({y \in starts : y < x}) = j - 1
    IN  RowPrefix(m, rows[i].key)

\* The records a Scan appended.
Appended(e) == SubSeq(e.after, Len(e.before) + 1, Len(e.after))

\* The field of a kind that holds the value of a cell.
CellField(kind, value) == unmarshalTableValue(<<value>>, kind, ZeroOf(kind)).val

\* Record r is the row with prefix p of the cells: its key fields encode to
\* p, and every other field holds the cell of its column under p when the
\* cells have one and the column is asked for, and is zero otherwise.
IsRowOf(m, r, p, cells, columns) ==
    /\ encodePrimaryKey(m, r).err = nil
    /\ encodePrimaryKey(m, r).key = p
    /\ \A col \in DOMAIN m.fields \ SeqRange(m.primaryKey) :
          IF /\ columns = <<>> \/ col \in SeqRange(columns)
             /\ \E i \in DOMAIN cells : cells[i].key = p \o col
          THEN \E i \in DOMAIN cells :
                  /\ cells[i].key = p \o col
                  /\ r[col] = CellField(m.fields[col], cells[i].value)
          ELSE r[col] = ZeroOf(m.fields[col])

ContentsBefore(n) ==
    LET at == getLog.scans[n].at
        earlier == {k \in 1..(n - 1) : getLog.scans[k].at = at}
    IN  IF earlier # {}
        THEN getLog.scans[CHOOSE k \in earlier : \A o \in earlier : o <= k].after
        ELSE LET i == CHOOSE i \in DOMAIN results :
                         results[i].kind = "Scan" /\ results[i].err = nil /\ results[i].at = at
             IN  results[i].val

\* The last Scan of the run into the slice of Scan n.
LastInto(n) ==
    CHOOSE k \in DOMAIN getLog.scans :
        /\ getLog.scans[k].at = getLog.scans[n].at
        /\ \A o \in DOMAIN getLog.scans : getLog.scans[o].at = getLog.scans[n].at => o <= k

\* C14: a Scan whose Post returned no error leaves in its slice what the
\* slice held when the Post started, followed by the records it decoded, and
\* leaves the slice as it was when the reply is empty; a second Scan of the
\* batch into the same slice keeps what the first one appended.
C14_ScanOnlyAppends ==
    getLog.ran =>
        \A n \in DOMAIN getLog.scans :
            LET e == getLog.scans[n] IN
            e.err = nil =>
                /\ Len(e.after) >= Len(ContentsBefore(n))
                /\ SubSeq(e.after, 1, Len(ContentsBefore(n))) = ContentsBefore(n)
                /\ e.rows = <<>> => e.after = ContentsBefore(n)
                /\ e.rows # <<>> => Len(e.after) > Len(ContentsBefore(n))
                /\ heap[e.at].val = getLog.scans[LastInto(n)].after

\* A run held two Scans into one slice, and both appended a record.
C14_Witness ==
    /\ getLog.ran
    /\ \E n \in DOMAIN getLog.scans : \E k \in 1..(n - 1) :
          /\ getLog.scans[k].at = getLog.scans[n].at
          /\ getLog.scans[k].err = nil /\ getLog.scans[n].err = nil
          /\ Len(getLog.scans[k].after) > Len(ContentsBefore(k))
          /\ Len(heap[getLog.scans[n].at].val) > Len(getLog.scans[k].after)

\* The cells the store holds with start <= key < end, in key order.
StoredCells(c) == scanReply(store, c.key, c.end, Cardinality(DOMAIN store))

\* C17: in a run of a batch of Scans (the store is the one the Scans read), a
\* Scan with maxRows = N appends at most N records, and when the store holds
\* at most N rows between start and end it appends each of them with every
\* stored column that is asked for.
C17_MaxRowsWholeRows ==
    (getLog.ran /\ \A i \in DOMAIN calls : calls[i].op = "Scan") =>
        \A n \in DOMAIN getLog.scans :
            LET e == getLog.scans[n]
                c == calls[e.call]
                m == experimentalModels[c.type]
                cells == StoredCells(c)
            IN  e.err = nil =>
                  /\ Len(Appended(e)) <= c.maxRows
                  /\ Cardinality(RowStarts(m, cells)) <= c.maxRows =>
                        /\ Len(Appended(e)) = Cardinality(RowStarts(m, cells))
                        /\ \A j \in DOMAIN Appended(e) :
                              IsRowOf(m, Appended(e)[j], NthPrefix(m, cells, j), cells, c.columns)

-----------------------------------------------------------------------------
(* Increments: a table of Counter rows with a signed and an unsigned       *)
(* integer column, incremented through handles in one batch or in several. *)

IncBindArgs == {[name |-> <<"c">>, typ |-> Counter, primaryKey |-> <<cKey>>]}

\* The last two fail: the record is not passed by handle, the column is not
\* a field of the type.
IncArgs ==
    {[obj |-> [typ |-> CounterPtr, val |-> CounterKeyOnly], value |-> 2, column |-> cN],
     [obj |-> [typ |-> CounterPtr, val |-> CounterKeyOnly], value |-> 0 - 1, column |-> cN],
     [obj |-> [typ |-> CounterPtr, val |-> CounterFull], value |-> 2, column |-> cU],
     [obj |-> [typ |-> Counter, val |-> CounterKeyOnly], value |-> 2, column |-> cN],
     [obj |-> [typ |-> CounterPtr, val |-> CounterKeyOnly], value |-> 2, column |-> cNone]}

IncInit == ProtoIdle /\ ClientFresh /\ ConcIdle /\ limit = MaxIncOps

IncNext ==
    \/ \E a \in IncBindArgs : \E others \in OtherColumnOrders(deref(a.typ), a.primaryKey) :
          BindModel(a.name, a.typ, a.primaryKey, others)
    \/ \E a \in IncArgs : \E at \in 1..MaxIncOps : IncStruct(a.obj, a.value, a.column, at)
    \/ Run

SpecInc == IncInit /\ [][IncNext]_vars

\* Call i of the batch is an Increment, and the last call of the batch on its
\* cell.
LastIncrement(i) ==
    /\ calls[i].op = "Inc"
    /\ \A j \in DOMAIN calls : calls[j].key = calls[i].key => j <= i

\* C15: after the run, the field of the last Increment on a cell holds the
\* integer the store holds for the cell (as an unsigned number when the
\* field is unsigned); when the cell was absent before the first Increment
\* on it, that integer is the sum of the deltas of all Increments on the
\* cell, whether they were run in one batch or in several.
C15_IncrementWritesBack ==
    getLog.ran =>
        \A i \in DOMAIN calls :
            LastIncrement(i) =>
                LET c == calls[i]
                    kind == getDBFields(heap[c.obj].typ.type)[c.col]
                    field == heap[c.obj].val[c.col]
                IN  /\ getLog.errs[i] = nil
                    /\ c.key \in DOMAIN store
                    /\ store[c.key].Integer # <<>>
                    /\ kind = "int" => field = store[c.key].Integer[1]
                    /\ kind = "uint" => field = store[c.key].Integer[1] % Modulus
                    /\ (c.key \in DOMAIN incTotal /\ incTotal[c.key] # <<>>) =>
                          store[c.key].Integer[1] = incTotal[c.key][1]

\* A run left 1 in the field n of a record after an Increment by 2 in an
\* earlier batch and one by -1 in this one, on a cell that was absent.
C15_Witness ==
    /\ getLog.ran
    /\ \E i \in DOMAIN calls :
          /\ LastIncrement(i)
          /\ calls[i].col = cN
          /\ calls[i].value = 0 - 1
          /\ heap[calls[i].obj].val[cN] = 1
          /\ incTotal[calls[i].key] = <<1>>
          /\ Len(calls) = 1

-----------------------------------------------------------------------------
(* Setup failures: every operation of a batch with arguments whose setup   *)
(* succeeds and with arguments whose setup fails. Counter is bound with    *)
(* the primary key (key, n, u); User is bound with a primary key that      *)
(* names a column it does not have, so that encodePrimaryKey fails.        *)

SetupBindArgs ==
    {[name |-> <<"c">>, typ |-> Counter, primaryKey |-> <<cKey, cN, cU>>],
     [name |-> <<"u">>, typ |-> User, primaryKey |-> <<cId, cName, cRaw, cOk, cNone>>]}

\* An unknown column after a known one; a key that cannot be encoded.
SetupPutArgs ==
    {[obj |-> [typ |-> Counter, val |-> CounterFull], columns |-> <<>>],
     [obj |-> [typ |-> CounterPtr, val |-> CounterFull], columns |-> <<cF, cNone>>],
     [obj |-> [typ |-> User, val |-> UserFull], columns |-> <<>>]}

\* A record that is not passed by handle; an unknown column after a known one.
SetupGetArgs ==
    {[obj |-> [typ |-> CounterPtr, val |-> CounterKeyOnly], columns |-> <<cF, cN>>],
     [obj |-> [typ |-> Counter, val |-> CounterKeyOnly], columns |-> <<>>],
     [obj |-> [typ |-> CounterPtr, val |-> CounterKeyOnly], columns |-> <<cF, cNone>>]}

SetupDelArgs ==
    {[obj |-> [typ |-> Counter, val |-> CounterKeyOnly], columns |-> <<>>],
     [obj |-> [typ |-> CounterPtr, val |-> CounterKeyOnly], columns |-> <<cF, cNone>>]}

SetupIncArgs ==
    {[obj |-> [typ |-> CounterPtr, val |-> CounterKeyOnly], value |-> 1, column |-> cN],
     [obj |-> [typ |-> CounterPtr, val |-> CounterKeyOnly], value |-> 1, column |-> cNone]}

\* A dest that is not a pointer; an end key of another type.
SetupScanArgs ==
    {[dest |-> [isPtr |-> TRUE, isSlice |-> TRUE, elem |-> Counter, val |-> <<>>],
      start |-> [typ |-> Counter, val |-> CounterKeyOnly],
      end |-> [typ |-> Counter, val |-> CounterFull], maxRows |-> 10, columns |-> <<>>],
     [dest |-> [isPtr |-> FALSE, isSlice |-> TRUE, elem |-> Counter, val |-> <<>>],
      start |-> [typ |-> Counter, val |-> CounterKeyOnly],
      end |-> [typ |-> Counter, val |-> CounterFull], maxRows |-> 10, columns |-> <<>>],
     [dest |-> [isPtr |-> TRUE, isSlice |-> TRUE, elem |-> CounterPtr, val |-> <<>>],
      start |-> [typ |-> Counter, val |-> CounterKeyOnly],
      end |-> [typ |-> User, val |-> UserKeyOnly], maxRows |-> 10, columns |-> <<>>]}

SetupInit == ProtoIdle /\ ClientFresh /\ ConcIdle /\ limit = MaxSetupOps

SetupNext ==
    \/ \E a \in SetupBindArgs : \E others \in OtherColumnOrders(deref(a.typ), a.primaryKey) :
          BindModel(a.name, a.typ, a.primaryKey, others)
    \/ \E a \in SetupPutArgs : PutStruct(a.obj, a.columns)
    \/ \E a \in SetupGetArgs : GetStruct(a.obj, a.columns)
    \/ \E a \in SetupDelArgs : DelStruct(a.obj, a.columns)
    \/ \E a \in SetupIncArgs : \E at \in 1..MaxSetupOps :
          IncStruct(a.obj, a.value, a.column, at)
    \/ \E a \in SetupScanArgs : \E at \in 1..MaxSetupOps :
          ScanStruct(a.dest, a.start, a.end, a.maxRows, a.columns, at)

SpecSetup == SetupInit /\ [][SetupNext]_vars

\* A step that is a Get, Put, Increment, Scan or Delete on the batch: it
\* keeps the result entries and the calls of the batch and adds one entry;
\* the batch gains as many calls as the entry counts, and none when the
\* entry carries an error.
SetupStep ==
    results' # results =>
        /\ Len(results') = Len(results) + 1
        /\ SubSeq(results', 1, Len(results)) = results
        /\ Len(calls') >= Len(calls)
        /\ SubSeq(calls', 1, Len(calls)) = calls
        /\ Len(calls') = Len(calls) + results'[Len(results')].calls
        /\ results'[Len(results')].err # nil => calls' = calls
        /\ results'[Len(results')].err = nil =>
              \A i \in (Len(calls) + 1)..Len(calls') :
                 calls'[i].op = results'[Len(results')].kind

\* C16: an operation whose setup fails adds no call to the batch, leaves the
\* calls enqueued before it as they are and in their order, and records one
\* result entry with the error; an operation invoked after it still
\* enqueues its calls.
C16_SetupAllOrNothing == [][SetupStep]_vars

\* A batch holds the calls of a Put, then the error of an operation on
\* Counter that named an unknown column, then the calls of a Get.
C16_Witness ==
    /\ Len(results) = 3
    /\ results[1].kind = "Put" /\ results[1].err = nil /\ results[1].calls = 1
    /\ results[2].err = CErr("unable to find field") /\ results[2].type = "Counter"
    /\ results[3].kind = "Get" /\ results[3].err = nil /\ results[3].calls = 2
    /\ Len(calls) = 3
    /\ calls[1].op = "Put" /\ calls[2].op = "Get" /\ calls[3].op = "Get"

-----------------------------------------------------------------------------
(* Concurrent BindModel calls on one DB. The map is accessed without a     *)
(* lock, so a call is four steps: the nil test (line 209), the make (210), *)
(* the lookup (212-214), the install (229). A write to the map while       *)
(* another call is reading or writing it is a data race: it takes effect,  *)
(* or the runtime stops the program.                                       *)

Procs == {1, 2}

\* The arguments of a call with the order its fields map is ranged over.
ConcArgs ==
    {[a |-> a, others |-> o] : a \in BindArgs, o \in UNION {OtherColumnOrders(deref(b.typ), b.primaryKey) : b \in BindArgs}}

KInit ==
    /\ ProtoIdle
    /\ ClientInit
    /\ pc = [p \in Procs |-> "niltest"]
    /\ ret = [p \in Procs |-> unset]
    /\ crashed = FALSE
    /\ args \in [Procs -> ConcArgs]
    /\ \A p \in Procs :
          args[p].others \in OtherColumnOrders(deref(args[p].a.typ), args[p].a.primaryKey)

KUnchanged == UNCHANGED <<pvars, store, calls, results, heap, bindArgs, bindRet, nops, limit,
                          incTotal,
                          lastFull, getLog, args>>

\* if db.experimentalModels == nil
BindNilTest(p) ==
    /\ ~crashed
    /\ pc[p] = "niltest"
    /\ pc' = [pc EXCEPT ![p] = IF modelsNil THEN "make" ELSE "lookup"]
    /\ UNCHANGED <<experimentalModels, modelsNil, ret, crashed>>
    /\ KUnchanged

\* db.experimentalModels = make(map[reflect.Type]*model): the field is
\* overwritten with a fresh map, whatever it held by now.
BindMake(p) ==
    /\ ~crashed
    /\ pc[p] = "make"
    /\ pc' = [pc EXCEPT ![p] = "lookup"]
    /\ experimentalModels' = EmptyMap
    /\ modelsNil' = FALSE
    /\ UNCHANGED <<ret, crashed>>
    /\ KUnchanged

\* if _, ok := db.experimentalModels[t]; ok { return error }
BindLookup(p) ==
    /\ ~crashed
    /\ pc[p] = "lookup"
    /\ IF deref(args[p].a.typ) \in DOMAIN experimentalModels
       THEN /\ pc' = [pc EXCEPT ![p] = "done"]
            /\ ret' = [ret EXCEPT ![p] = CErr("model already defined")]
       ELSE /\ pc' = [pc EXCEPT ![p] = "install"]
            /\ ret' = ret
    /\ UNCHANGED <<experimentalModels, modelsNil, crashed>>
    /\ KUnchanged

\* db.experimentalModels[t] = m; return nil
BindInstall(p) ==
    /\ ~crashed
    /\ pc[p] = "install"
    /\ LET t == deref(args[p].a.typ) IN
       experimentalModels' =
           [x \in DOMAIN experimentalModels \cup {t} |->
              IF x = t THEN newModel(args[p].a.name, t, args[p].a.primaryKey, args[p].others)
              ELSE experimentalModels[x]]
    /\ pc' = [pc EXCEPT ![p] = "done"]
    /\ ret' = [ret EXCEPT ![p] = nil]
    /\ UNCHANGED <<modelsNil, crashed>>
    /\ KUnchanged

\* fatal error: concurrent map writes / concurrent map read and map write
BindRace(p) ==
    /\ ~crashed
    /\ pc[p] = "install"
    /\ \E q \in Procs \ {p} : pc[q] \in {"lookup", "install"}
    /\ crashed' = TRUE
    /\ UNCHANGED <<experimentalModels, modelsNil, pc, ret>>
    /\ KUnchanged

KNext ==
    \E p \in Procs :
        BindNilTest(p) \/ BindMake(p) \/ BindLookup(p) \/ BindInstall(p) \/ BindRace(p)

SpecConc == KInit /\ [][KNext]_vars

\* Both calls returned, for the same type and different tables.
BothReturned ==
    /\ \A p \in Procs : pc[p] = "done"
    /\ deref(args[1].a.typ) = deref(args[2].a.typ)
    /\ args[1].a.name # args[2].a.name

\* C9: of two concurrent BindModel calls for the same type, at most one
\* returns without error.
C9_AtMostOneBinds == BothReturned => ~(ret[1] = nil /\ ret[2] = nil)

====
